---- MODULE Spec2Model ----
(***************************************************************************)
(* Model of the heatmap field engine of honeywell-agile-iq-poc-frontend:   *)
(* the standalone HeatmapController (src/heatmap.ts) and the Angular       *)
(* HeatmapService (src/src/app/core/services/heatmap.service.ts), with     *)
(* the Signal and Battery strategies they share; and of the               *)
(* CommandRegistryService                                                  *)
(* (src/src/app/core/services/command-registry.service.ts), whose          *)
(* runCommand is followed from await to await.                             *)
(*                                                                         *)
(* Numbers.  JavaScript numbers are modelled as exact rationals <<n, d>>   *)
(* with d > 0 in lowest terms; Math.sqrt is modelled to a fixed precision  *)
(* (SqrtScale), rounding down.  The sums and products of                   *)
(* combineInfluences and of BatteryStrategy.update and the coordinates of   *)
(* the rasterizer's sample points are rounded as IEEE 754 arithmetic rounds *)
(* them (to the nearest number of MantissaBits significant bits, ties to    *)
(* even), since the relation between the combine modes, the effect of the   *)
(* order of the links on the neighbour sums and the place of the sample     *)
(* points in the bounding box depend on the rounding; the other formulas    *)
(* are evaluated exactly.                                                   *)
(***************************************************************************)
EXTENDS Integers, Sequences, FiniteSets, TLC

\* ------------------------------------------------------------------------
\* Bounds of the model
\* ------------------------------------------------------------------------

\* Largest value of the clock performance.now() the model explores (ms).
MaxNow == 16

\* Math.sqrt is computed to 1/SqrtScale, rounded down.
SqrtScale == 8

\* The amounts by which the clock advances between two calls (ms).
TickSteps == {8, 16}

\* The significant bits of a number in combineInfluences (53 in a double).
MantissaBits == 4

\* The longest list of values handed to combineInfluences.
MaxValues == 2

\* The most middlewares the registry holds.
MaxMiddlewares == 3

\* ------------------------------------------------------------------------
\* Rational arithmetic
\* ------------------------------------------------------------------------

Abs(i) == IF i < 0 THEN -i ELSE i

RECURSIVE GCD(_, _)
GCD(a, b) == IF b = 0 THEN a ELSE GCD(b, a % b)

\* The rational n/d (d # 0) in lowest terms with a positive denominator.
Reduce(n, d, g) ==
  IF d < 0 THEN <<(-n) \div g, (-d) \div g>> ELSE <<n \div g, d \div g>>

R(n, d) == Reduce(n, d, GCD(Abs(n), Abs(d)))

Num(i) == <<i, 1>>
Zero == <<0, 1>>
One == <<1, 1>>
Half == <<1, 2>>

RAdd(a, b) == R(a[1] * b[2] + b[1] * a[2], a[2] * b[2])
RSub(a, b) == R(a[1] * b[2] - b[1] * a[2], a[2] * b[2])
RMul(a, b) == R(a[1] * b[1], a[2] * b[2])
RDiv(a, b) == R(a[1] * b[2], a[2] * b[1])
RLt(a, b) == a[1] * b[2] < b[1] * a[2]
RLe(a, b) == a[1] * b[2] <= b[1] * a[2]
RMax(a, b) == IF RLt(a, b) THEN b ELSE a
RMin(a, b) == IF RLt(b, a) THEN b ELSE a
RAbs(a) == <<Abs(a[1]), a[2]>>

\* floor(sqrt(n)) for n >= 0, by bisection on [lo, hi).
RECURSIVE ISqrtIn(_, _, _)
ISqrtIn(n, lo, hi) ==
  IF hi - lo <= 1 THEN lo
  ELSE LET mid == (lo + hi) \div 2
       IN  IF mid * mid <= n THEN ISqrtIn(n, mid, hi) ELSE ISqrtIn(n, lo, mid)

\* (46340 is the largest root whose square is a 32-bit integer.)
ISqrt(n) == ISqrtIn(n, 0, IF n < 46340 THEN n + 1 ELSE 46341)

\* Math.sqrt of a rational a >= 0, to 1/(d * SqrtScale), rounded down.
RSqrt(a) ==
  R(ISqrt(a[1] * a[2] * SqrtScale * SqrtScale), a[2] * SqrtScale)

\* ------------------------------------------------------------------------
\* Floating-point rounding
\* ------------------------------------------------------------------------

RECURSIVE Pow2(_)
Pow2(k) == IF k = 0 THEN 1 ELSE 2 * Pow2(k - 1)

\* n/d (n, d > 0) scaled by a power of two into [2^(bits-1), 2^bits):
\* <<n * up, d * down>> with the scale up/down.
RECURSIVE Normalize(_, _, _, _, _)
Normalize(n, d, up, down, bits) ==
  IF n >= d * Pow2(bits) THEN Normalize(n, 2 * d, up, 2 * down, bits)
  ELSE IF n < d * Pow2(bits - 1) THEN Normalize(2 * n, d, 2 * up, down, bits)
  ELSE <<n, d, up, down>>

\* The integer nearest to q + r/d (0 <= r < d), ties to the even one.
NearestEven(q, r, d) ==
  IF 2 * r < d THEN q
  ELSE IF 2 * r > d THEN q + 1
  ELSE IF q % 2 = 0 THEN q ELSE q + 1

RoundNormal(nm) ==
  R(NearestEven(nm[1] \div nm[2], nm[1] % nm[2], nm[2]) * nm[4], nm[3])

\* The floating-point number nearest to the rational a.
Fl(a) ==
  IF a[1] = 0 THEN Zero
  ELSE IF a[1] < 0
       THEN RSub(Zero, RoundNormal(Normalize(-a[1], a[2], 1, 1, MantissaBits)))
       ELSE RoundNormal(Normalize(a[1], a[2], 1, 1, MantissaBits))

\* The operators +, - and * of JavaScript on floating-point numbers.
FAdd(a, b) == Fl(RAdd(a, b))
FSub(a, b) == Fl(RSub(a, b))
FMul(a, b) == Fl(RMul(a, b))

\* ------------------------------------------------------------------------
\* BABYLON.Vector3: a triple of rationals
\* ------------------------------------------------------------------------

Vec(x, y, z) == <<Num(x), Num(y), Num(z)>>

VSub(p, q) == <<RSub(p[1], q[1]), RSub(p[2], q[2]), RSub(p[3], q[3])>>
VAdd(p, q) == <<RAdd(p[1], q[1]), RAdd(p[2], q[2]), RAdd(p[3], q[3])>>
VScale(p, t) == <<RMul(p[1], t), RMul(p[2], t), RMul(p[3], t)>>
VDot(p, q) == RAdd(RAdd(RMul(p[1], q[1]), RMul(p[2], q[2])), RMul(p[3], q[3]))
VLength(p) == RSqrt(VDot(p, p))
Distance(p, q) == VLength(VSub(p, q))

\* Vector3.Minimize / Vector3.Maximize: component-wise minimum and maximum.
Minimize(p, q) == <<RMin(p[1], q[1]), RMin(p[2], q[2]), RMin(p[3], q[3])>>
Maximize(p, q) == <<RMax(p[1], q[1]), RMax(p[2], q[2]), RMax(p[3], q[3])>>

\* ------------------------------------------------------------------------
\* Map<string, T>: a sequence of records with an id field, in insertion
\* order (Array.from(map.values()) is the sequence itself).
\* ------------------------------------------------------------------------

MapIds(m) == {m[i].id : i \in DOMAIN m}
MapHas(m, id) == id \in MapIds(m)
MapGet(m, id) == m[CHOOSE i \in DOMAIN m : m[i].id = id]

\* Map.set: an existing key keeps its place, a new key goes last.
MapSet(m, rec) ==
  IF MapHas(m, rec.id)
  THEN [i \in DOMAIN m |-> IF m[i].id = rec.id THEN rec ELSE m[i]]
  ELSE Append(m, rec)

\* Map.delete: the entries with another id, in order.
RECURSIVE MapDelete(_, _)
MapDelete(m, id) ==
  IF m = <<>> THEN <<>>
  ELSE IF Head(m).id # id THEN <<Head(m)>> \o MapDelete(Tail(m), id)
       ELSE MapDelete(Tail(m), id)

\* Array.find: the first sensor of the context with this id, or NoSensor.
NoSensor == [id |-> "undefined"]

Find(sensors, id) ==
  IF MapHas(sensors, id) THEN MapGet(sensors, id) ELSE NoSensor

\* ------------------------------------------------------------------------
\* Strategies (identical in heatmap.ts and heatmap.service.ts)
\*
\* A sensor is [id, position, intensity, radius, enabled], a link is
\* [id, sensorA, sensorB, weight] with id = <<sensorA, sensorB>> standing for
\* the string `${sensorA}-${sensorB}`, an attenuator is
\* [id, position, factor, radius].  A context is [sensors, links,
\* attenuators], each a sequence.
\* ------------------------------------------------------------------------

\* BaseHeatmapStrategy.combineInfluences
\* values.reduce((sum, v) => sum + v, 0)
RECURSIVE SumSeq(_)
SumSeq(values) ==
  IF values = <<>> THEN Zero
  ELSE FAdd(SumSeq(SubSeq(values, 1, Len(values) - 1)), values[Len(values)])

RECURSIVE MaxSeq(_)
MaxSeq(values) ==
  IF Len(values) = 1 THEN Head(values)
  ELSE RMax(Head(values), MaxSeq(Tail(values)))

\* Mutant of OverlayAcc: the product of the values, not of their
\* complements.
RECURSIVE OverlayAccOfValues(_)
OverlayAccOfValues(values) ==
  IF values = <<>> THEN One
  ELSE FMul(OverlayAccOfValues(SubSeq(values, 1, Len(values) - 1)),
            values[Len(values)])

\* values.reduce((acc, v) => acc * (1 - v), 1)
RECURSIVE OverlayAcc(_)
OverlayAcc(values) ==
  IF values = <<>> THEN One
  ELSE FMul(OverlayAcc(SubSeq(values, 1, Len(values) - 1)),
            FSub(One, values[Len(values)]))

combineInfluences(values, combineMode) ==
  IF values = <<>> THEN Zero
  ELSE CASE combineMode = "add" -> RMin(One, SumSeq(values))
         [] combineMode = "max" -> MaxSeq(values)
         [] combineMode = "overlay" -> FSub(One, OverlayAcc(values))
         [] OTHER -> MaxSeq(values)

\* SignalStrategy.pointToSegmentDistance
\* (the body, on segmentVector, pointVector and segmentLength)
DistanceAlong(point, segmentStart, segmentVector, pointVector, segLength) ==
  IF segLength = Zero THEN VLength(pointVector)
  ELSE LET t == RMax(Zero, RMin(One,
                  RDiv(VDot(pointVector, segmentVector),
                       RMul(segLength, segLength))))
           projection == VAdd(segmentStart, VScale(segmentVector, t))
       IN  Distance(point, projection)

DistanceToVector(point, segmentStart, segmentVector) ==
  DistanceAlong(point, segmentStart, segmentVector,
                VSub(point, segmentStart), VLength(segmentVector))

pointToSegmentDistance(point, segmentStart, segmentEnd) ==
  DistanceToVector(point, segmentStart, VSub(segmentEnd, segmentStart))

\* The contribution of one link to linkInfluence (0 when the link does not
\* touch the sensor, the other end is missing, disabled or at zero, or the
\* point is too far from the segment).
LinkValue(sensor, otherSensor, link, distFromSegment, maxLinkRadius) ==
  IF RLt(distFromSegment, maxLinkRadius)
  THEN LET linkFactor ==
             RMax(Zero, RSub(One, RDiv(distFromSegment, maxLinkRadius)))
           avgIntensity ==
             RMul(RAdd(sensor.intensity, otherSensor.intensity), Half)
       IN  RMul(RMul(linkFactor, avgIntensity), link.weight)
  ELSE Zero

\* Mutant of LinkTo: a disabled sensor at the other end still contributes.
LinkToDisabled(sensor, point, link, otherSensor) ==
  IF otherSensor # NoSensor /\ RLt(Zero, otherSensor.intensity)
  THEN LinkValue(sensor, otherSensor, link,
                 pointToSegmentDistance(point, sensor.position,
                                        otherSensor.position),
                 RMul(RMax(sensor.radius, otherSensor.radius), Half))
  ELSE Zero

LinkTo(sensor, point, link, otherSensor) ==
  IF otherSensor # NoSensor /\ otherSensor.enabled
     /\ RLt(Zero, otherSensor.intensity)
  THEN LinkValue(sensor, otherSensor, link,
                 pointToSegmentDistance(point, sensor.position,
                                        otherSensor.position),
                 RMul(RMax(sensor.radius, otherSensor.radius), Half))
  ELSE Zero

LinkContribution(sensor, point, link, context) ==
  IF link.sensorA = sensor.id \/ link.sensorB = sensor.id
  THEN LinkTo(sensor, point, link,
              Find(context.sensors,
                   IF link.sensorA = sensor.id THEN link.sensorB
                   ELSE link.sensorA))
  ELSE Zero

RECURSIVE LinkInfluence(_, _, _, _)
LinkInfluence(sensor, point, links, context) ==
  IF links = <<>> THEN Zero
  ELSE RMax(LinkInfluence(sensor, point, Tail(links), context),
            LinkContribution(sensor, point, Head(links), context))

\* Mutant of AttenuateBy: the attenuation amount is added to 1.
AttenuateByGain(influence, att, distToAtt) ==
  IF RLt(distToAtt, att.radius)
  THEN RMul(influence,
            RAdd(One, RMul(RSub(One, att.factor),
                           RSub(One, RDiv(distToAtt, att.radius)))))
  ELSE influence

\* The attenuation loop of SignalStrategy.computeInfluence.
RECURSIVE Attenuate(_, _, _)
AttenuateBy(influence, att, distToAtt) ==
  IF RLt(distToAtt, att.radius)
  THEN RMul(influence,
            RSub(One, RMul(RSub(One, att.factor),
                           RSub(One, RDiv(distToAtt, att.radius)))))
  ELSE influence

Attenuate(influence, point, attenuators) ==
  IF attenuators = <<>> THEN influence
  ELSE Attenuate(AttenuateBy(influence, Head(attenuators),
                             Distance(Head(attenuators).position, point)),
                 point, Tail(attenuators))

\* Mutant of Silent: only a disabled sensor is silent.
SilentWhenDisabled(sensor) == ~sensor.enabled

\* The first test of SignalStrategy.computeInfluence.
Silent(sensor) == ~sensor.enabled \/ sensor.intensity = Zero

\* Mutant of Raised: the link influence replaces the base influence.
Replaced(influence, linkInfluence) == linkInfluence

\* influence = Math.max(influence, linkInfluence)
Raised(influence, linkInfluence) == RMax(influence, linkInfluence)

\* Mutant of Falloff: the factor is not cut off at 0.
FalloffBelowZero(distance, radius) == RSub(One, RDiv(distance, radius))

\* Math.max(0, 1 - distance / sensor.radius)
Falloff(distance, radius) == RMax(Zero, RSub(One, RDiv(distance, radius)))

\* SignalStrategy.computeInfluence
SignalComputeInfluence(sensor, point, context) ==
  IF Silent(sensor) THEN Zero
  ELSE LET distance == Distance(sensor.position, point)
           base == RMul(Falloff(distance, sensor.radius), sensor.intensity)
           influence ==
             IF Len(context.links) > 0
             THEN Raised(base,
                         LinkInfluence(sensor, point, context.links, context))
             ELSE base
       IN  Attenuate(influence, point, context.attenuators)

\* The Battery strategy's effectiveIntensityCache is a function from sensor
\* ids to numbers; EmptyCache is the Map after construction or clear().
EmptyCache == <<>>

\* BatteryStrategy.computeInfluence
RSquare(q) == RMul(q, q)

BatteryInfluenceAt(sensor, cache, distance) ==
  IF RLt(sensor.radius, distance) THEN Zero
  ELSE LET distanceFactor ==
             RSub(One, RSquare(RDiv(distance, sensor.radius)))
           effective ==
             IF sensor.id \in DOMAIN cache THEN cache[sensor.id]
             ELSE sensor.intensity
       IN  RMul(effective, distanceFactor)

BatteryComputeInfluence(sensor, point, cache) ==
  IF ~sensor.enabled THEN Zero
  ELSE BatteryInfluenceAt(sensor, cache, Distance(sensor.position, point))

\* BatteryStrategy.update: the iteration cap and the convergence threshold.
maxIterations == 5
ConvergenceThreshold == R(1, 1000)

\* The ids pushed to `neighbors` for sensor sid, in link order.
NeighborOver(sid, link) ==
  IF link.sensorA = sid THEN <<link.sensorB>>
  ELSE IF link.sensorB = sid THEN <<link.sensorA>>
  ELSE <<>>

RECURSIVE Neighbors(_, _)
Neighbors(sid, links) ==
  IF links = <<>> THEN <<>>
  ELSE NeighborOver(sid, Head(links)) \o Neighbors(sid, Tail(links))

\* <<sum, count>> after the loop over the neighbours, starting from acc
\* (sum += nv, rounded).
RECURSIVE NeighborSum(_, _, _, _)
NeighborSum(acc, neighbors, sensors, currentValues) ==
  IF neighbors = <<>> THEN acc
  ELSE LET nId == Head(neighbors)
           neighbor == Find(sensors, nId)
           nv == IF nId \in DOMAIN currentValues THEN currentValues[nId]
                 ELSE Zero
           next == IF neighbor # NoSensor /\ neighbor.enabled
                   THEN <<FAdd(acc[1], nv), acc[2] + 1>>
                   ELSE acc
       IN  NeighborSum(next, Tail(neighbors), sensors, currentValues)

\* Mutant of Average: the sum is not divided by the count.
Total(sc) == sc[1]

\* newVal of one sensor in one sweep: sum / count.
Average(sc) == Fl(RDiv(sc[1], Num(sc[2])))

NewVal(s, context, currentValues) ==
  IF ~s.enabled THEN Zero
  ELSE Average(NeighborSum(<<s.intensity, 1>>,
                           Neighbors(s.id, context.links),
                           context.sensors, currentValues))

\* One sweep: the committed values and maxChange.
MaxChange(changes) == IF changes = <<>> THEN Zero ELSE MaxSeq(changes)

Committed(context, currentValues, newValues) ==
  [values |-> newValues,
   maxChange |->
     MaxChange([i \in DOMAIN context.sensors |->
                  IF context.sensors[i].enabled
                  THEN RAbs(FSub(newValues[context.sensors[i].id],
                                 currentValues[context.sensors[i].id]))
                  ELSE Zero])]

\* newValues after the loop over the sensors ss: newValues.set(s.id, newVal)
\* for each of them, every newVal computed from the values of the sweep
\* before.
RECURSIVE NewValues(_, _, _)
\* Mutant of NewValues: each newVal is committed to currentValues at once.
NewValuesInPlace(ss, context, currentValues) ==
  IF ss = <<>> THEN EmptyCache
  ELSE (Head(ss).id :> NewVal(Head(ss), context, currentValues))
       @@ NewValues(Tail(ss), context,
                    (Head(ss).id :> NewVal(Head(ss), context, currentValues))
                    @@ currentValues)

NewValues(ss, context, currentValues) ==
  IF ss = <<>> THEN EmptyCache
  ELSE (Head(ss).id :> NewVal(Head(ss), context, currentValues))
       @@ NewValues(Tail(ss), context, currentValues)

Sweep(context, currentValues) ==
  Committed(context, currentValues,
            NewValues(context.sensors, context, currentValues))

\* The loop over iter: Iterate is the loop head, AfterSweep the test on
\* maxChange that ends the loop or goes round again.  Both give the values
\* the loop leaves and the number of sweeps it made.
RECURSIVE Iterate(_, _, _)
RECURSIVE AfterSweep(_, _, _)
\* Mutant of AfterSweep: the loop does not stop on a small maxChange.
AfterSweepGoesOn(context, sw, iter) == Iterate(context, sw.values, iter + 1)

AfterSweep(context, sw, iter) ==
  IF RLt(sw.maxChange, ConvergenceThreshold)
  THEN [values |-> sw.values, sweeps |-> iter + 1]
  ELSE Iterate(context, sw.values, iter + 1)

Iterate(context, currentValues, iter) ==
  IF iter >= maxIterations THEN [values |-> currentValues, sweeps |-> iter]
  ELSE AfterSweep(context, Sweep(context, currentValues), iter)

\* The values of the first loop of update: s.enabled ? s.intensity : 0.
RawValues(context) ==
  [id \in MapIds(context.sensors) |->
     IF MapGet(context.sensors, id).enabled
     THEN MapGet(context.sensors, id).intensity ELSE Zero]

\* BatteryStrategy.update: the cache it leaves and the sweeps it made.
BatteryRun(context) ==
  IF Len(context.links) = 0
  THEN [values |-> RawValues(context), sweeps |-> 0]
  ELSE Iterate(context, RawValues(context), 0)

\* BatteryStrategy.update: the cache it leaves.
BatteryUpdate(context) == BatteryRun(context).values

\* ------------------------------------------------------------------------
\* Rasterizer: HeatmapController.computeHeatmap
\* ------------------------------------------------------------------------

\* The three extents of a bounding box, in the order x, y, z.
Dimensions(bounds) ==
  <<[name |-> "x", size |-> FSub(bounds.max[1], bounds.min[1]),
     min |-> bounds.min[1], max |-> bounds.max[1]],
    [name |-> "y", size |-> FSub(bounds.max[2], bounds.min[2]),
     min |-> bounds.min[2], max |-> bounds.max[2]],
    [name |-> "z", size |-> FSub(bounds.max[3], bounds.min[3]),
     min |-> bounds.min[3], max |-> bounds.max[3]]>>

\* Mutant of SortBySizeDesc: ascending by size.
SortBySizeAsc(dims) ==
  LET Before(j, i) ==
        RLt(dims[j].size, dims[i].size)
        \/ (dims[i].size = dims[j].size /\ j < i)
      Rank(i) == 1 + Cardinality({j \in DOMAIN dims : Before(j, i)})
  IN  [k \in DOMAIN dims |-> dims[CHOOSE i \in DOMAIN dims : Rank(i) = k]]

\* Array.sort((a, b) => b.size - a.size): descending by size, stable.
SortBySizeDesc(dims) ==
  LET Before(j, i) ==
        RLt(dims[i].size, dims[j].size)
        \/ (dims[i].size = dims[j].size /\ j < i)
      Rank(i) == 1 + Cardinality({j \in DOMAIN dims : Before(j, i)})
  IN  [k \in DOMAIN dims |-> dims[CHOOSE i \in DOMAIN dims : Rank(i) = k]]

\* The sample point of cell (x, y), 0 <= x, y < size.
\* The coordinate of the sample point on the axis `name`.
Coord(name, dim1, dim2, coord1, coord2, coord3) ==
  IF dim1.name = name THEN coord1
  ELSE IF dim2.name = name THEN coord2 ELSE coord3

PointAt(dim1, dim2, coord1, coord2, coord3) ==
  <<Coord("x", dim1, dim2, coord1, coord2, coord3),
    Coord("y", dim1, dim2, coord1, coord2, coord3),
    Coord("z", dim1, dim2, coord1, coord2, coord3)>>

Flip(uvVFlipped, v) == IF uvVFlipped THEN FSub(One, v) ELSE v

SampleOn(dimensions, u, vUsed) ==
  PointAt(dimensions[1], dimensions[2],
          FAdd(dimensions[1].min, FMul(u, dimensions[1].size)),
          FAdd(dimensions[2].min, FMul(vUsed, dimensions[2].size)),
          Fl(RDiv(FAdd(dimensions[3].min, dimensions[3].max), Num(2))))

\* Mutant of SamplePoint: the cells are counted from 1, not from 0.
SamplePointFromOne(bounds, size, uvVFlipped, x, y) ==
  SampleOn(SortBySizeDesc(Dimensions(bounds)),
           Fl(R(x + 1, size - 1)), Flip(uvVFlipped, Fl(R(y + 1, size - 1))))

SamplePoint(bounds, size, uvVFlipped, x, y) ==
  SampleOn(SortBySizeDesc(Dimensions(bounds)),
           Fl(R(x, size - 1)), Flip(uvVFlipped, Fl(R(y, size - 1))))

\* strategy.computeInfluence, dispatched on the active strategy's name.
ComputeInfluence(strategy, cache, sensor, point, context) ==
  IF strategy = "signal" THEN SignalComputeInfluence(sensor, point, context)
  ELSE BatteryComputeInfluence(sensor, point, cache)

\* The `influences` array of one cell: the positive influences of the
\* enabled sensors, in context order.
\* What one sensor pushes to `influences`.
Positive(influence) == IF RLt(Zero, influence) THEN <<influence>> ELSE <<>>

Pushed(strategy, cache, sensor, point, context) ==
  IF ~sensor.enabled THEN <<>>
  ELSE Positive(ComputeInfluence(strategy, cache, sensor, point, context))

RECURSIVE Influences(_, _, _, _, _)
Influences(strategy, cache, sensors, point, context) ==
  IF sensors = <<>> THEN <<>>
  ELSE Pushed(strategy, cache, Head(sensors), point, context)
       \o Influences(strategy, cache, Tail(sensors), point, context)

\* combinedValue of one cell.
Combined(influences, combineMode) ==
  IF Len(influences) > 0 THEN combineInfluences(influences, combineMode)
  ELSE Zero

\* Mutant of CellValue: the forced value is 1.
CellValueForcesOne(config, strategy, cache, context, point) ==
  IF /\ config.zeroForceRed
     /\ \E i \in DOMAIN context.sensors : context.sensors[i].enabled
     /\ \A i \in DOMAIN context.sensors :
          context.sensors[i].enabled =>
            context.sensors[i].intensity = Zero
  THEN One
  ELSE Combined(Influences(strategy, cache, context.sensors, point, context),
                config.combineMode)

\* finalValue of one cell.
CellValue(config, strategy, cache, context, point) ==
  LET enabledIdx == {i \in DOMAIN context.sensors : context.sensors[i].enabled}
      enabledSensorsCount == Cardinality(enabledIdx)
      zeroSensorsCount ==
        IF config.zeroForceRed
        THEN Cardinality({i \in enabledIdx :
                            context.sensors[i].intensity = Zero})
        ELSE 0
      allSensorsZero ==
        enabledSensorsCount > 0 /\ zeroSensorsCount = enabledSensorsCount
  IN  IF allSensorsZero /\ config.zeroForceRed THEN Zero
      ELSE Combined(Influences(strategy, cache, context.sensors, point,
                               context),
                    config.combineMode)

\* HeatmapController.computeHeatmap: data[y][x], indices from 1.
computeHeatmap(config, strategy, cache, bounds, context) ==
  [y \in 1 .. config.textureSize |->
     [x \in 1 .. config.textureSize |->
        CellValue(config, strategy, cache, context,
                  SamplePoint(bounds, config.textureSize, config.uvVFlipped,
                              x - 1, y - 1))]]

\* The computeInfluence calls of one raster pass, in order: one per cell
\* (rows outermost) and enabled sensor.
RECURSIVE EnabledIds(_)
EnabledIds(sensors) ==
  IF sensors = <<>> THEN <<>>
  ELSE IF Head(sensors).enabled
       THEN <<Head(sensors).id>> \o EnabledIds(Tail(sensors))
       ELSE EnabledIds(Tail(sensors))

RECURSIVE InfluenceCalls(_, _, _)
InfluenceCalls(ids, size, cell) ==
  IF cell >= size * size THEN <<>>
  ELSE [i \in DOMAIN ids |->
          <<"computeInfluence", ids[i], cell % size, cell \div size>>]
       \o InfluenceCalls(ids, size, cell + 1)

\* ------------------------------------------------------------------------
\* HeatmapService.computeHeatmap
\* ------------------------------------------------------------------------

\* relevantSensors: the enabled sensors attached to the mesh, in order.
RECURSIVE RelevantSensors(_, _)
RelevantSensors(sensors, meshId) ==
  IF sensors = <<>> THEN <<>>
  ELSE IF Head(sensors).enabled /\ Head(sensors).attachedMeshId = meshId
       THEN <<Head(sensors)>> \o RelevantSensors(Tail(sensors), meshId)
       ELSE RelevantSensors(Tail(sensors), meshId)

svcCellValue(mode, cache, relevantSensors, context, point) ==
  Combined(Influences(mode, cache, relevantSensors, point, context), "max")

svcComputeHeatmap(size, mode, cache, bounds, meshId, context) ==
  LET relevantSensors == RelevantSensors(context.sensors, meshId)
  IN  [y \in 1 .. size |->
         [x \in 1 .. size |->
            IF relevantSensors = <<>> THEN Zero
            ELSE svcCellValue(mode, cache, relevantSensors, context,
                              SamplePoint(bounds, size, FALSE, x - 1, y - 1))]]

\* ------------------------------------------------------------------------
\* State
\* ------------------------------------------------------------------------

VARIABLES
  host,                    \* the class this run is about
  sensors,                 \* Map<string, Sensor>
  links,                   \* Map<string, Link>
  attenuators,             \* Map<string, AttenuationPoint>
  strategy,                \* controller: name of config.strategy
  mode,                    \* service: config.mode
  visible,                 \* service: config.visible
  scene,                   \* service: "null" until initialize(scene)
  effectiveIntensityCache, \* the cache of the BatteryStrategy instance
  targetMeshes,            \* controller: Set of meshes; service: Map from
                           \* mesh id to its originalMaterial
  material,                \* mesh.material of every mesh of the scene
  meshBounds,              \* controller: {min, max} or NoBounds
  isDirty,
  lastRenderTime,
  now,                     \* performance.now()
  rasterTimes,             \* history: the times of the last two raster
                           \* passes, the latest last
  calls,                   \* history: the calls the last operation made on
                           \* the strategy and the textures, in order
  op,                      \* history: the last operation called
  result,                  \* history: the direct call of a function of
                           \* the strategy or of the rasterizer made since
                           \* the last operation, with its arguments and
                           \* the value it returned
  commandHandlers,         \* registry: the command types with a handler
  middlewares,             \* registry: the middlewares, in order
  executionStates,         \* registry: Map<string, ExecutionState>
  frame,                   \* registry: the locals of the runCommand call
                           \* and the await it stands at
  inFlight,                \* registry: the attempts whose handler promise
                           \* has not settled
  trace,                   \* history: the handler invocations of the
                           \* runCommand call, how each attempt ended and
                           \* the delays waited
  outcome                  \* history: how the promise runCommand returned
                           \* has settled

vars == <<host, sensors, links, attenuators, strategy, mode, visible, scene,
          effectiveIntensityCache, targetMeshes, material, meshBounds,
          isDirty, lastRenderTime, now, rasterTimes, calls, op, result,
          commandHandlers, middlewares, executionStates, frame, inFlight,
          trace, outcome>>

\* ------------------------------------------------------------------------
\* CommandRegistryService: fields and construction
\* ------------------------------------------------------------------------

defaultConfig == [retryAttempts |-> 2, retryDelay |-> 1000, timeout |-> 5000]

\* frame while no runCommand call is under way.
NoFrame ==
  [pc |-> "idle", commandId |-> "none", scene |-> "null",
   execConfig |-> defaultConfig, index |-> 0, attempt |-> 0]

NoTrace == [invoked |-> 0, ended |-> <<>>, waited |-> <<>>]

NoOutcome == [settled |-> "pending"]

\* The CommandRegistryService as constructed.
RegistryInit ==
  /\ commandHandlers = {}
  /\ middlewares = <<>>
  /\ executionStates = <<>>
  /\ frame = NoFrame
  /\ inFlight = {}
  /\ trace = NoTrace
  /\ outcome = NoOutcome

\* No operation of the heatmap classes touches the registry.
RegistryFixed ==
  UNCHANGED <<commandHandlers, middlewares, executionStates, frame, inFlight,
              trace, outcome>>

\* ------------------------------------------------------------------------
\* The scene and the configurations
\* ------------------------------------------------------------------------

MeshIds == {"m1", "m2"}
StrategyNames == {"signal", "battery"}

\* mesh.getBoundingInfo().boundingBox of the meshes of the scene.
BoundingBox(mesh) ==
  IF mesh = "m1" THEN [min |-> Vec(0, 0, 0), max |-> Vec(4, 0, 3)]
  ELSE [min |-> Vec(0, 0, 1), max |-> Vec(2, 0, 6)]

\* An option or patch field the caller left out.
Undefined == <<0, 0>>

\* The HeatmapConfig the controller is constructed with.
ControllerConfig ==
  [defaultRadius |-> Num(5), combineMode |-> "max", zeroForceRed |-> TRUE,
   textureSize |-> 2, uvVFlipped |-> TRUE]

\* HeatmapService.config (textureSize scaled down from 256).
ServiceConfig == [defaultRadius |-> Num(20), textureSize |-> 2]

renderThrottle == 16

NoBounds == [min |-> <<>>, max |-> <<>>]

\* extractMeshIdFromSensorName: the second of at least three parts of the
\* name split at "_", else null.
extractMeshIdFromSensorName(sensorName) ==
  CASE sensorName = "cam_m1_1" -> "m1"
    [] sensorName = "cam_m1_2" -> "m1"
    [] OTHER -> "null"

\* ------------------------------------------------------------------------
\* Helpers of both classes
\* ------------------------------------------------------------------------

\* The record kept in op: the operation's name, whether its target was in
\* the store (or was created), the number of links a removeSensor dropped,
\* and whether the active strategy changed.
Op(name, hit, dropped, swapped) ==
  [name |-> name, hit |-> hit, dropped |-> dropped, swapped |-> swapped]

\* rasterTimes after a raster pass at time t.
Rastered(times, t) ==
  IF times = <<>> THEN <<t>> ELSE <<times[Len(times)], t>>

\* Whether the calls cs hold a raster pass (a grid written to a texture).
HasRaster(cs) == \E i \in DOMAIN cs : cs[i][1] = "updateTexture"

\* result before any direct call.
NoResult == [name |-> "none"]

Context(ss, ls, as) == [sensors |-> ss, links |-> ls, attenuators |-> as]

\* Mutant of StrategyUpdate: the Battery cache is not rebuilt; the
\* relaxation resumes from the values it holds.
StrategyUpdateResumes(name, cache, context) ==
  IF name # "battery" THEN cache
  ELSE IF DOMAIN cache = MapIds(context.sensors) /\ Len(context.links) > 0
       THEN Iterate(context, cache, 0).values
       ELSE BatteryUpdate(context)

\* strategy.update(context): the Battery cache afterwards.
StrategyUpdate(name, cache, context) ==
  IF name = "battery" THEN BatteryUpdate(context) ELSE cache

\* Object.assign(target, patch)
Assign(target, patch) ==
  [k \in DOMAIN target |-> IF k \in DOMAIN patch THEN patch[k] ELSE target[k]]

\* Mutant of LinksWithout: the cascade tests only the sensorA end.
RECURSIVE LinksWithoutSensorA(_, _)
LinksWithoutSensorA(ls, id) ==
  IF ls = <<>> THEN <<>>
  ELSE IF Head(ls).sensorA = id
       THEN LinksWithoutSensorA(Tail(ls), id)
       ELSE <<Head(ls)>> \o LinksWithoutSensorA(Tail(ls), id)

\* The links removeSensor keeps.
RECURSIVE LinksWithout(_, _)
LinksWithout(ls, id) ==
  IF ls = <<>> THEN <<>>
  ELSE IF Head(ls).sensorA = id \/ Head(ls).sensorB = id
       THEN LinksWithout(Tail(ls), id)
       ELSE <<Head(ls)>> \o LinksWithout(Tail(ls), id)

\* Mutants of RenderSkips: the two tests joined by "or"; the comparison
\* with the throttle window the wrong way round.
RenderSkipsEither(dirty, elapsed) == ~dirty \/ elapsed < renderThrottle

RenderSkipsLate(dirty, elapsed) == ~dirty /\ elapsed > renderThrottle

\* The throttle test of render().
RenderSkips(dirty, elapsed) == ~dirty /\ elapsed < renderThrottle

\* Mutant of PatchForcesUpdate: a patch of enabled alone forces nothing.
PatchForcesUpdateOnIntensity(patch) == "intensity" \in DOMAIN patch

\* Whether updateSensor refreshes the strategy for this patch.
PatchForcesUpdate(patch) ==
  "intensity" \in DOMAIN patch \/ "enabled" \in DOMAIN patch

NewLink(sensorAId, sensorBId, weight) ==
  [id |-> <<sensorAId, sensorBId>>, sensorA |-> sensorAId,
   sensorB |-> sensorBId, weight |-> weight]

\* ------------------------------------------------------------------------
\* HeatmapController
\* ------------------------------------------------------------------------

\* updateBounds: the union of the bounding boxes of the target meshes.
\* (UpdateBoundsKeeps, below, is the mutant of updateBounds that keeps the
\* old bounds when no mesh is left.)
Union(a, b) ==
  [min |-> Minimize(a.min, b.min), max |-> Maximize(a.max, b.max)]

AnyOf(meshes) == CHOOSE x \in meshes : TRUE

RECURSIVE BoundsOf(_)
BoundsOf(meshes) ==
  IF Cardinality(meshes) = 1 THEN BoundingBox(AnyOf(meshes))
  ELSE Union(BoundsOf(meshes \ {AnyOf(meshes)}),
             BoundingBox(AnyOf(meshes)))

UpdateBoundsKeeps(meshes) ==
  IF meshes = {} THEN meshBounds ELSE BoundsOf(meshes)

updateBounds(meshes) == IF meshes = {} THEN NoBounds ELSE BoundsOf(meshes)

\* The sensor addSensor stores.
NewSensor(id, position, intensity, radius) ==
  [id |-> id, position |-> position,
   intensity |-> IF intensity # Undefined THEN intensity ELSE One,
   radius |-> IF radius # Undefined /\ radius # Zero THEN radius
              ELSE ControllerConfig.defaultRadius,
   enabled |-> TRUE]

\* updateStrategyImmediate on the store ss, ls, as.
updateStrategyImmediate(ss, ls, as) ==
  /\ effectiveIntensityCache' =
       StrategyUpdate(strategy, effectiveIntensityCache, Context(ss, ls, as))
  /\ isDirty' = TRUE
  /\ calls' = <<<<"update", strategy>>>>

\* What no controller operation touches; an operation ends the record of
\* the direct call made before it.
CtlFixed ==
  /\ UNCHANGED <<host, mode, visible, scene>>
  /\ result' = NoResult
  /\ RegistryFixed

CtlFrame == /\ CtlFixed
            /\ UNCHANGED <<material, targetMeshes, meshBounds,
                           lastRenderTime, now, rasterTimes>>

CtlInit ==
  /\ host = "controller"
  /\ sensors = <<>>
  /\ links = <<>>
  /\ attenuators = <<>>
  /\ strategy \in StrategyNames
  /\ mode = "none"
  /\ visible = FALSE
  /\ scene = "null"
  /\ effectiveIntensityCache = EmptyCache
  /\ targetMeshes = {}
  /\ material = [m \in MeshIds |-> "original"]
  /\ meshBounds = NoBounds
  /\ isDirty = TRUE
  /\ lastRenderTime = 0
  /\ now = 0
  /\ rasterTimes = <<>>
  /\ calls = <<<<"update", strategy>>>>
  /\ op = Op("constructor", TRUE, 0, FALSE)
  /\ result = NoResult
  /\ RegistryInit

addSensor(id, position, intensity, radius) ==
  /\ host = "controller"
  /\ op' = Op("addSensor", TRUE, 0, FALSE)
  /\ sensors' = MapSet(sensors, NewSensor(id, position, intensity, radius))
  /\ updateStrategyImmediate(sensors', links, attenuators)
  /\ UNCHANGED <<links, attenuators, strategy>>
  /\ CtlFrame

removeSensor(id) ==
  /\ host = "controller"
  /\ op' = Op("removeSensor", MapHas(sensors, id),
              Len(links) - Len(LinksWithout(links, id)), FALSE)
  /\ sensors' = MapDelete(sensors, id)
  /\ links' = LinksWithout(links, id)
  /\ updateStrategyImmediate(sensors', links', attenuators)
  /\ UNCHANGED <<attenuators, strategy>>
  /\ CtlFrame

updateSensor(id, patch) ==
  /\ host = "controller"
  /\ op' = Op("updateSensor", MapHas(sensors, id), 0, FALSE)
  /\ IF ~MapHas(sensors, id)
     THEN /\ calls' = <<>>
          /\ UNCHANGED <<sensors, isDirty, effectiveIntensityCache>>
     ELSE /\ sensors' = MapSet(sensors, Assign(MapGet(sensors, id), patch))
          /\ IF PatchForcesUpdate(patch)
             THEN updateStrategyImmediate(sensors', links, attenuators)
             ELSE /\ isDirty' = TRUE
                  /\ calls' = <<>>
                  /\ UNCHANGED effectiveIntensityCache
  /\ UNCHANGED <<links, attenuators, strategy>>
  /\ CtlFrame

addLink(sensorAId, sensorBId, weight) ==
  /\ host = "controller"
  /\ op' = Op("addLink", TRUE, 0, FALSE)
  /\ links' = MapSet(links, NewLink(sensorAId, sensorBId, weight))
  /\ updateStrategyImmediate(sensors, links', attenuators)
  /\ UNCHANGED <<sensors, attenuators, strategy>>
  /\ CtlFrame

removeLink(id) ==
  /\ host = "controller"
  /\ op' = Op("removeLink", MapHas(links, id), 0, FALSE)
  /\ links' = MapDelete(links, id)
  /\ updateStrategyImmediate(sensors, links', attenuators)
  /\ UNCHANGED <<sensors, attenuators, strategy>>
  /\ CtlFrame

clearLinks ==
  /\ host = "controller"
  /\ op' = Op("clearLinks", TRUE, 0, FALSE)
  /\ links' = <<>>
  /\ updateStrategyImmediate(sensors, links', attenuators)
  /\ UNCHANGED <<sensors, attenuators, strategy>>
  /\ CtlFrame

addAttenuator(id, position, factor, radius) ==
  /\ host = "controller"
  /\ op' = Op("addAttenuator", TRUE, 0, FALSE)
  /\ attenuators' = MapSet(attenuators,
                           [id |-> id, position |-> position,
                            factor |-> factor, radius |-> radius])
  /\ isDirty' = TRUE
  /\ calls' = <<>>
  /\ UNCHANGED <<sensors, links, strategy, effectiveIntensityCache>>
  /\ CtlFrame

removeAttenuator(id) ==
  /\ host = "controller"
  /\ op' = Op("removeAttenuator", MapHas(attenuators, id), 0, FALSE)
  /\ attenuators' = MapDelete(attenuators, id)
  /\ isDirty' = TRUE
  /\ calls' = <<>>
  /\ UNCHANGED <<sensors, links, strategy, effectiveIntensityCache>>
  /\ CtlFrame

\* Mutant of updateAttenuator: the patch is applied, isDirty is not set.
updateAttenuatorKeepsDirty(id, patch) ==
  /\ host = "controller"
  /\ op' = Op("updateAttenuator", MapHas(attenuators, id), 0, FALSE)
  /\ attenuators' =
       IF MapHas(attenuators, id)
       THEN MapSet(attenuators, Assign(MapGet(attenuators, id), patch))
       ELSE attenuators
  /\ calls' = <<>>
  /\ UNCHANGED <<sensors, links, strategy, effectiveIntensityCache, isDirty>>
  /\ CtlFrame

updateAttenuator(id, patch) ==
  /\ host = "controller"
  /\ op' = Op("updateAttenuator", MapHas(attenuators, id), 0, FALSE)
  /\ IF ~MapHas(attenuators, id)
     THEN UNCHANGED <<attenuators, isDirty>>
     ELSE /\ attenuators' =
               MapSet(attenuators, Assign(MapGet(attenuators, id), patch))
          /\ isDirty' = TRUE
  /\ calls' = <<>>
  /\ UNCHANGED <<sensors, links, strategy, effectiveIntensityCache>>
  /\ CtlFrame

\* setStrategy(new SignalStrategy()) / setStrategy(new BatteryStrategy()):
\* the strategy handed over is a fresh instance, its cache empty.
setStrategy(name) ==
  /\ host = "controller"
  /\ op' = Op("setStrategy", TRUE, 0, name # strategy)
  /\ strategy' = name
  /\ effectiveIntensityCache' =
       StrategyUpdate(name, EmptyCache, Context(sensors, links, attenuators))
  /\ isDirty' = TRUE
  /\ calls' = <<<<"update", name>>>>
  /\ UNCHANGED <<sensors, links, attenuators>>
  /\ CtlFrame

attachToMesh(mesh) ==
  /\ host = "controller"
  /\ op' = Op("attachToMesh", TRUE, 0, FALSE)
  /\ targetMeshes' = targetMeshes \cup {mesh}
  /\ material' = [material EXCEPT ![mesh] = "heatmap"]
  /\ meshBounds' = updateBounds(targetMeshes')
  /\ isDirty' = TRUE
  /\ calls' = <<>>
  /\ UNCHANGED <<sensors, links, attenuators, strategy,
                 effectiveIntensityCache, lastRenderTime, now, rasterTimes>>
  /\ CtlFixed

detachFromMesh(mesh) ==
  /\ host = "controller"
  /\ op' = Op("detachFromMesh", mesh \in targetMeshes, 0, FALSE)
  /\ targetMeshes' = targetMeshes \ {mesh}
  /\ meshBounds' = updateBounds(targetMeshes')
  /\ isDirty' = IF targetMeshes' = {} THEN isDirty ELSE TRUE
  /\ calls' = <<>>
  /\ UNCHANGED <<material, sensors, links, attenuators, strategy,
                 effectiveIntensityCache, lastRenderTime, now, rasterTimes>>
  /\ CtlFixed

\* The calls of one controller raster pass after strategy.update.
RasterCalls(cache) ==
  InfluenceCalls(EnabledIds(sensors), ControllerConfig.textureSize, 0)
  \o <<<<"updateTexture",
         computeHeatmap(ControllerConfig, strategy, cache, meshBounds,
                        Context(sensors, links, attenuators))>>>>

render ==
  /\ host = "controller"
  /\ op' = Op("render", TRUE, 0, FALSE)
  /\ IF meshBounds = NoBounds \/ RenderSkips(isDirty, now - lastRenderTime)
     THEN /\ calls' = <<>>
          /\ UNCHANGED <<lastRenderTime, isDirty, effectiveIntensityCache,
                         rasterTimes>>
     ELSE /\ lastRenderTime' = now
          /\ isDirty' = FALSE
          /\ effectiveIntensityCache' =
               StrategyUpdate(strategy, effectiveIntensityCache,
                              Context(sensors, links, attenuators))
          /\ rasterTimes' = Rastered(rasterTimes, now)
          /\ calls' = <<<<"update", strategy>>>>
                      \o RasterCalls(effectiveIntensityCache')
  /\ UNCHANGED <<sensors, links, attenuators, strategy, targetMeshes,
                 material, meshBounds, now>>
  /\ CtlFixed

\* ------------------------------------------------------------------------
\* HeatmapService
\* ------------------------------------------------------------------------

\* getStrategy(): the strategy config.mode selects.
getStrategy(m) == IF m = "signal" THEN "signal" ELSE "battery"

\* The sensor HeatmapService.addSensor stores (surfaceAnchor and normal,
\* which no computation reads, are left out).
svcNewSensor(id, position, intensity, radius) ==
  [id |-> id, position |-> position,
   intensity |-> IF intensity # Undefined THEN intensity ELSE One,
   radius |-> IF radius # Undefined THEN radius
              ELSE ServiceConfig.defaultRadius,
   enabled |-> TRUE,
   attachedMeshId |-> extractMeshIdFromSensorName(id)]

\* The first loop of updateTargetMeshes over the sensors ss: the meshes
\* newly tracked, their materials, and whether isDirty was set.
RECURSIVE AddTargets(_, _, _)
AddTargets(ss, st, vis) ==
  IF ss = <<>> THEN st
  ELSE LET sensor == Head(ss)
           meshId == sensor.attachedMeshId
           next ==
             IF sensor.enabled /\ meshId # "null" /\ meshId \in MeshIds
                /\ ~MapHas(st.targets, meshId)
             THEN [targets |->
                     Append(st.targets,
                            [id |-> meshId,
                             originalMaterial |-> st.material[meshId]]),
                   material |->
                     IF vis THEN [st.material EXCEPT ![meshId] = "heatmap"]
                     ELSE st.material,
                   dirty |-> TRUE]
             ELSE st
       IN  AddTargets(Tail(ss), next, vis)

\* currentTargetIds
CurrentTargetIds(ss) ==
  {ss[i].attachedMeshId : i \in {j \in DOMAIN ss :
      ss[j].enabled /\ ss[j].attachedMeshId \in MeshIds}}

\* The second loop of updateTargetMeshes: meshes no longer targeted get
\* their original material back and are dropped.
RECURSIVE DropTargets(_, _, _)
DropTargets(entries, st, current) ==
  IF entries = <<>> THEN st
  ELSE LET e == Head(entries)
           next ==
             IF e.id \notin current
             THEN [targets |-> MapDelete(st.targets, e.id),
                   material |->
                     [st.material EXCEPT ![e.id] = e.originalMaterial],
                   dirty |-> st.dirty]
             ELSE st
       IN  DropTargets(Tail(entries), next, current)

\* updateTargetMeshes on [targets, material, dirty].
updateTargetMeshes(st, sc, ss, vis) ==
  IF sc = "null" THEN st
  ELSE LET added == AddTargets(ss, st, vis)
       IN  DropTargets(added.targets, added, CurrentTargetIds(ss))

\* Every mesh of the map gets its original material back.
RECURSIVE RestoreMaterials(_, _)
RestoreMaterials(entries, mat) ==
  IF entries = <<>> THEN mat
  ELSE RestoreMaterials(Tail(entries),
         [mat EXCEPT ![Head(entries).id] = Head(entries).originalMaterial])

\* HeatmapService.updateStrategyImmediate on [cache, dirty, calls].
svcUpdateStrategyImmediate(st, vis, m, ss, ls) ==
  IF ~vis THEN st
  ELSE [cache |-> StrategyUpdate(getStrategy(m), st.cache,
                                 Context(ss, ls, attenuators)),
        dirty |-> TRUE,
        calls |-> Append(st.calls, <<"update", getStrategy(m)>>)]

\* A mutation of the service: isDirty = true, then updateStrategyImmediate.
svcCommit(st) ==
  /\ effectiveIntensityCache' = st.cache
  /\ isDirty' = st.dirty
  /\ calls' = st.calls

svcMutated(ss, ls) ==
  svcCommit(svcUpdateStrategyImmediate(
              [cache |-> effectiveIntensityCache, dirty |-> TRUE,
               calls |-> <<>>], visible, mode, ss, ls))

SvcFixed ==
  /\ UNCHANGED <<host, strategy, meshBounds>>
  /\ result' = NoResult
  /\ RegistryFixed

SvcFrame == /\ SvcFixed
            /\ UNCHANGED <<mode, visible, scene, targetMeshes, material,
                           lastRenderTime, now, rasterTimes>>

SvcInit ==
  /\ host = "service"
  /\ sensors = <<>>
  /\ links = <<>>
  /\ attenuators = <<>>
  /\ strategy = "none"
  /\ mode = "signal"
  /\ visible = FALSE
  /\ scene = "null"
  /\ effectiveIntensityCache = EmptyCache
  /\ targetMeshes = <<>>
  /\ material = [m \in MeshIds |-> "original"]
  /\ meshBounds = NoBounds
  /\ isDirty = FALSE
  /\ lastRenderTime = 0
  /\ now = 0
  /\ rasterTimes = <<>>
  /\ calls = <<>>
  /\ op = Op("constructor", TRUE, 0, FALSE)
  /\ result = NoResult
  /\ RegistryInit

initialize ==
  /\ host = "service"
  /\ op' = Op("initialize", TRUE, 0, FALSE)
  /\ scene' = "scene"
  /\ calls' = <<>>
  /\ UNCHANGED <<sensors, links, attenuators, mode, visible,
                 effectiveIntensityCache, targetMeshes, material, isDirty,
                 lastRenderTime, now, rasterTimes>>
  /\ SvcFixed

\* dispose(): every tracked mesh gets its original material back; the
\* collections are cleared and the scene is dropped.
dispose ==
  /\ host = "service"
  /\ op' = Op("dispose", TRUE, 0, FALSE)
  /\ material' = RestoreMaterials(targetMeshes, material)
  /\ targetMeshes' = <<>>
  /\ sensors' = <<>>
  /\ links' = <<>>
  /\ attenuators' = <<>>
  /\ scene' = "null"
  /\ calls' = <<>>
  /\ UNCHANGED <<mode, visible, effectiveIntensityCache, isDirty,
                 lastRenderTime, now, rasterTimes>>
  /\ SvcFixed

svcAddSensor(id, position, intensity, radius) ==
  /\ host = "service"
  /\ op' = Op("addSensor", TRUE, 0, FALSE)
  /\ sensors' = MapSet(sensors, svcNewSensor(id, position, intensity, radius))
  /\ svcMutated(sensors', links)
  /\ UNCHANGED <<links, attenuators>>
  /\ SvcFrame

svcRemoveSensor(id) ==
  /\ host = "service"
  /\ op' = Op("removeSensor", MapHas(sensors, id),
              Len(links) - Len(LinksWithout(links, id)), FALSE)
  /\ sensors' = MapDelete(sensors, id)
  /\ links' = LinksWithout(links, id)
  /\ svcMutated(sensors', links')
  /\ UNCHANGED attenuators
  /\ SvcFrame

svcUpdateSensor(id, patch) ==
  /\ host = "service"
  /\ op' = Op("updateSensor", MapHas(sensors, id), 0, FALSE)
  /\ IF ~MapHas(sensors, id)
     THEN /\ calls' = <<>>
          /\ UNCHANGED <<sensors, isDirty, effectiveIntensityCache>>
     ELSE /\ sensors' = MapSet(sensors, Assign(MapGet(sensors, id), patch))
          /\ IF PatchForcesUpdate(patch)
             THEN svcMutated(sensors', links)
             ELSE /\ isDirty' = TRUE
                  /\ calls' = <<>>
                  /\ UNCHANGED effectiveIntensityCache
  /\ UNCHANGED <<links, attenuators>>
  /\ SvcFrame

svcAddLink(sensorAId, sensorBId, weight) ==
  /\ host = "service"
  /\ op' = Op("addLink", TRUE, 0, FALSE)
  /\ links' = MapSet(links, NewLink(sensorAId, sensorBId, weight))
  /\ svcMutated(sensors, links')
  /\ UNCHANGED <<sensors, attenuators>>
  /\ SvcFrame

svcClearLinks ==
  /\ host = "service"
  /\ op' = Op("clearLinks", TRUE, 0, FALSE)
  /\ links' = <<>>
  /\ svcMutated(sensors, links')
  /\ UNCHANGED <<sensors, attenuators>>
  /\ SvcFrame

\* Mutant of Shown: showing the heatmap refreshes the target meshes and sets
\* isDirty but does not run the strategy's update.
ShownStale(st, tm, up) ==
  [st EXCEPT !.targets = tm.targets, !.material = tm.material,
             !.dirty = TRUE]

\* setConfig, step 1: the visibility change.
\* st with the outcome tm of updateTargetMeshes and the outcome up of
\* updateStrategyImmediate.
Shown(st, tm, up) ==
  [st EXCEPT !.targets = tm.targets, !.material = tm.material,
             !.cache = up.cache, !.dirty = up.dirty, !.calls = up.calls]

Refreshed(st, up) ==
  [st EXCEPT !.cache = up.cache, !.dirty = up.dirty, !.calls = up.calls]

SetConfigVisible(st, config, oldVisible) ==
  IF "visible" \in DOMAIN config /\ config.visible # oldVisible
  THEN IF config.visible
       THEN Shown(st,
                  updateTargetMeshes(
                    [targets |-> st.targets, material |-> st.material,
                     dirty |-> st.dirty], scene, sensors, TRUE),
                  svcUpdateStrategyImmediate(
                    [cache |-> st.cache, dirty |-> TRUE,
                     calls |-> st.calls], TRUE, st.mode, sensors, links))
       ELSE [st EXCEPT !.material = RestoreMaterials(st.targets, st.material)]
  ELSE st

\* setConfig, step 2: colorStops or textureSize given.
SetConfigTextures(st, config) ==
  IF "colorStops" \in DOMAIN config \/ "textureSize" \in DOMAIN config
  THEN [st EXCEPT !.material = RestoreMaterials(st.targets, st.material),
                  !.targets = <<>>, !.dirty = TRUE]
  ELSE st

\* Mutant of SetConfigMode: the mode change refreshes nothing.
SetConfigModeOnly(st, config, oldMode) == st

\* setConfig, step 3: the mode change.
SetConfigMode(st, config, oldMode) ==
  IF "mode" \in DOMAIN config /\ config.mode # oldMode
  THEN Refreshed(st, svcUpdateStrategyImmediate(
                        [cache |-> st.cache, dirty |-> st.dirty,
                         calls |-> st.calls], st.visible, st.mode, sensors,
                        links))
  ELSE st

\* this.config = { ...this.config, ...config }
Merged(config) ==
  [mode |-> IF "mode" \in DOMAIN config THEN config.mode ELSE mode,
   visible |-> IF "visible" \in DOMAIN config THEN config.visible
               ELSE visible,
   targets |-> targetMeshes, material |-> material,
   cache |-> effectiveIntensityCache, dirty |-> isDirty, calls |-> <<>>]

\* The fields of the service as setConfig leaves them.
SetConfigDone(st) ==
  /\ mode' = st.mode
  /\ visible' = st.visible
  /\ targetMeshes' = st.targets
  /\ material' = st.material
  /\ effectiveIntensityCache' = st.cache
  /\ isDirty' = st.dirty
  /\ calls' = st.calls

setConfig(config) ==
  /\ host = "service"
  /\ op' = Op("setConfig", TRUE, 0,
           "mode" \in DOMAIN config /\ config.mode # mode)
  /\ SetConfigDone(
       SetConfigMode(
         SetConfigTextures(SetConfigVisible(Merged(config), config, visible),
                           config),
         config, mode))
  /\ UNCHANGED <<sensors, links, attenuators, scene, lastRenderTime, now,
                 rasterTimes>>
  /\ SvcFixed

\* The calls of the raster passes of HeatmapService.render, one pass per
\* target mesh.
RECURSIVE svcRasterCalls(_)
svcRasterCalls(entries) ==
  IF entries = <<>> THEN <<>>
  ELSE LET meshId == Head(entries).id
           context == Context(sensors, links, attenuators)
       IN  InfluenceCalls(EnabledIds(RelevantSensors(sensors, meshId)),
                          ServiceConfig.textureSize, 0)
           \o <<<<"updateTexture",
                  svcComputeHeatmap(ServiceConfig.textureSize,
                                    getStrategy(mode),
                                    effectiveIntensityCache,
                                    BoundingBox(meshId), meshId, context)>>>>
           \o svcRasterCalls(Tail(entries))

\* render after updateTargetMeshes left tm: one raster pass per mesh.
svcRasterized(tm) ==
  /\ isDirty' = tm.dirty
  /\ targetMeshes' = tm.targets
  /\ material' = tm.material
  /\ calls' = svcRasterCalls(tm.targets)
  /\ rasterTimes' = IF tm.targets = <<>> THEN rasterTimes
                     ELSE Rastered(rasterTimes, now)

svcRender ==
  /\ host = "service"
  /\ op' = Op("render", TRUE, 0, FALSE)
  /\ IF scene = "null" \/ ~visible
        \/ RenderSkips(isDirty, now - lastRenderTime)
     THEN /\ calls' = <<>>
          /\ UNCHANGED <<lastRenderTime, isDirty, targetMeshes, material,
                         rasterTimes>>
     ELSE /\ lastRenderTime' = now
          /\ svcRasterized(updateTargetMeshes(
                             [targets |-> targetMeshes, material |-> material,
                              dirty |-> FALSE], scene, sensors, visible))
  /\ UNCHANGED <<sensors, links, attenuators, mode, visible, scene,
                 effectiveIntensityCache, now>>
  /\ SvcFixed

\* ------------------------------------------------------------------------
\* The clock
\* ------------------------------------------------------------------------

\* Time passes between two calls.
Tick(d) ==
  /\ now + d <= MaxNow
  /\ now' = now + d
  /\ UNCHANGED <<calls, host, sensors, links, attenuators, strategy, mode,
                 visible,
                 scene, effectiveIntensityCache, targetMeshes, material,
                 meshBounds, isDirty, lastRenderTime, rasterTimes, op,
                 result>>
  /\ RegistryFixed

\* ------------------------------------------------------------------------
\* Direct calls of the functions of the strategy
\* ------------------------------------------------------------------------

\* What a direct call leaves alone: it reads the store and changes nothing.
CallFrame ==
  /\ UNCHANGED <<host, sensors, links, attenuators, strategy, mode, visible,
                 scene, effectiveIntensityCache, targetMeshes, material,
                 meshBounds, isDirty, lastRenderTime, now, rasterTimes,
                 calls, op>>
  /\ RegistryFixed

\* strategy.combineInfluences(values, combineMode)
callCombineInfluences(values, combineMode) ==
  /\ result' = [name |-> "combineInfluences", values |-> values,
                combineMode |-> combineMode,
                value |-> combineInfluences(values, combineMode)]
  /\ CallFrame

\* strategy.computeInfluence(sensor, point, context) for the sensor id of
\* the store, the context being the store.
callComputeInfluence(id, point) ==
  /\ MapHas(sensors, id)
  /\ result' =
       [name |-> "computeInfluence", sensor |-> MapGet(sensors, id),
        point |-> point,
        value |-> ComputeInfluence(strategy, effectiveIntensityCache,
                                   MapGet(sensors, id), point,
                                   Context(sensors, links, attenuators))]
  /\ CallFrame

\* computeHeatmap(context) of a controller whose config and meshBounds are
\* config and bounds, the context being the store.
callComputeHeatmap(config, bounds) ==
  /\ host = "controller"
  /\ result' =
       [name |-> "computeHeatmap", config |-> config, bounds |-> bounds,
        grid |-> computeHeatmap(config, strategy, effectiveIntensityCache,
                                bounds,
                                Context(sensors, links, attenuators))]
  /\ CallFrame

\* ------------------------------------------------------------------------
\* Specifications
\* ------------------------------------------------------------------------

\* The mutation operations of the controller on the inputs I.
CtlMutations(I) ==
  \/ \E id \in I.sensorIds, p \in I.positions, i \in I.intensityOptions,
        r \in I.radiusOptions : addSensor(id, p, i, r)
  \/ \E id \in I.sensorIds : removeSensor(id)
  \/ \E id \in I.sensorIds, patch \in I.sensorPatches : updateSensor(id, patch)
  \/ \E id \in I.linkIds, w \in I.weights : addLink(id[1], id[2], w)
  \/ \E id \in I.linkIds : removeLink(id)
  \/ clearLinks
  \/ \E id \in I.attenuatorIds, a \in I.attenuators :
        addAttenuator(id, a.position, a.factor, a.radius)
  \/ \E id \in I.attenuatorIds : removeAttenuator(id)
  \/ \E id \in I.attenuatorIds, patch \in I.attenuatorPatches :
        updateAttenuator(id, patch)
  \/ \E name \in StrategyNames : setStrategy(name)

\* The mutation operations of the service on the inputs I.
SvcMutations(I) ==
  \/ \E id \in I.svcSensorIds, p \in I.positions, i \in I.intensityOptions,
        r \in I.radiusOptions : svcAddSensor(id, p, i, r)
  \/ \E id \in I.svcSensorIds : svcRemoveSensor(id)
  \/ \E id \in I.svcSensorIds, patch \in I.sensorPatches :
        svcUpdateSensor(id, patch)
  \/ \E id \in I.svcLinkIds, w \in I.weights : svcAddLink(id[1], id[2], w)
  \/ svcClearLinks

ConfigPatches ==
  {[visible |-> v] : v \in BOOLEAN} \cup {[mode |-> m] : m \in StrategyNames}
  \cup {[textureSize |-> ServiceConfig.textureSize]}

Attenuator(f) ==
  [position |-> Vec(4, 0, 0), factor |-> f, radius |-> Num(2)]

\* Spec: every operation of both classes with the clock, on a store of one
\* sensor, one link and one attenuator.
FrameInputs ==
  [sensorIds |-> {"a"}, svcSensorIds |-> {"cam_m1_1"},
   positions |-> {Vec(0, 0, 0)},
   intensityOptions |-> {Undefined, Zero},
   radiusOptions |-> {Undefined},
   sensorPatches |-> {<<>>, [intensity |-> Zero], [enabled |-> FALSE],
                      [enabled |-> TRUE]},
   linkIds |-> {<<"a", "b">>}, svcLinkIds |-> {<<"cam_m1_1", "cam_m1_2">>},
   weights |-> {One},
   attenuatorIds |-> {"w"},
   attenuators |-> {Attenuator(Half)},
   attenuatorPatches |-> {[factor |-> Zero]},
   meshes |-> {"m1"}]

Init == CtlInit \/ SvcInit

Next ==
  \/ CtlMutations(FrameInputs)
  \/ \E mesh \in FrameInputs.meshes : attachToMesh(mesh)
  \/ \E mesh \in FrameInputs.meshes : detachFromMesh(mesh)
  \/ render
  \/ SvcMutations(FrameInputs)
  \/ initialize
  \/ dispose
  \/ \E config \in ConfigPatches : setConfig(config)
  \/ svcRender
  \/ \E d \in TickSteps : Tick(d)

Spec == Init /\ [][Next]_vars

\* StoreSpec: the operations on the sensors and links of both classes and
\* setStrategy, on two sensors and two links of which one ends at a sensor
\* that is never added; no render and no clock.
StoreInputs ==
  [sensorIds |-> {"a", "b"}, svcSensorIds |-> {"cam_m1_1", "cam_m1_2"},
   positions |-> {Vec(0, 0, 0)},
   intensityOptions |-> {Undefined, Zero},
   radiusOptions |-> {Undefined},
   sensorPatches |-> {[position |-> Vec(4, 0, 3)], [intensity |-> Zero],
                      [enabled |-> FALSE], [enabled |-> TRUE]},
   linkIds |-> {<<"a", "b">>, <<"b", "c">>},
   svcLinkIds |-> {<<"cam_m1_1", "cam_m1_2">>, <<"cam_m1_2", "cam_m2_1">>},
   weights |-> {One}]

StoreNext ==
  \/ \E id \in StoreInputs.sensorIds, i \in StoreInputs.intensityOptions :
        addSensor(id, Vec(0, 0, 0), i, Undefined)
  \/ \E id \in StoreInputs.sensorIds : removeSensor(id)
  \/ \E id \in StoreInputs.sensorIds, patch \in StoreInputs.sensorPatches :
        updateSensor(id, patch)
  \/ \E id \in StoreInputs.linkIds : addLink(id[1], id[2], One)
  \/ \E id \in StoreInputs.linkIds : removeLink(id)
  \/ clearLinks
  \/ \E name \in StrategyNames : setStrategy(name)
  \/ SvcMutations(StoreInputs)

StoreSpec == Init /\ [][StoreNext]_vars

\* ServiceSpec: the service alone with its operations on two sensors of one
\* mesh and one link, the configuration changes and render; the clock
\* stands still.
ServiceSensors == {<<"cam_m1_1", Undefined>>, <<"cam_m1_2", Zero>>}

ServiceNext ==
  \/ \E s \in ServiceSensors :
        svcAddSensor(s[1], Vec(0, 0, 0), s[2], Undefined)
  \/ svcRemoveSensor("cam_m1_2")
  \/ \E e \in BOOLEAN : svcUpdateSensor("cam_m1_1", [enabled |-> e])
  \/ svcAddLink("cam_m1_1", "cam_m1_2", One)
  \/ svcClearLinks
  \/ initialize
  \/ dispose
  \/ \E config \in ConfigPatches : setConfig(config)
  \/ svcRender

ServiceSpec == SvcInit /\ [][ServiceNext]_vars

\* RegionSpec: the controller with two meshes to attach and detach, one
\* sensor, render and the clock.
RegionNext ==
  \/ \E mesh \in MeshIds : attachToMesh(mesh)
  \/ \E mesh \in MeshIds : detachFromMesh(mesh)
  \/ addSensor("a", Vec(0, 0, 0), Undefined, Undefined)
  \/ \E patch \in {[intensity |-> Zero], [position |-> Vec(4, 0, 3)]} :
        updateSensor("a", patch)
  \/ render
  \/ \E d \in TickSteps : Tick(d)

RegionSpec == CtlInit /\ [][RegionNext]_vars

\* RangeSpec: addSensor and updateSensor of both classes on numeric options
\* and patches inside and outside the documented ranges.
RangeIntensities == {Undefined, Half, Num(2), Num(-1)}
RangeRadii == {Undefined, Zero, Num(3), Num(-1)}
RangePatches ==
  {[intensity |-> Num(2)], [intensity |-> Half], [radius |-> Zero],
   [radius |-> Num(-1)]}

RangeNext ==
  \/ \E id \in {"a", "b"}, i \in RangeIntensities, r \in RangeRadii :
        addSensor(id, Vec(0, 0, 0), i, r)
  \/ \E id \in {"a", "b"}, patch \in RangePatches : updateSensor(id, patch)
  \/ \E id \in {"cam_m1_1"}, i \in RangeIntensities, r \in RangeRadii :
        svcAddSensor(id, Vec(0, 0, 0), i, r)
  \/ \E id \in {"cam_m1_1"}, patch \in RangePatches :
        svcUpdateSensor(id, patch)

RangeSpec == Init /\ [][RangeNext]_vars

\* CombineSpec: combineInfluences on the lists of one to MaxValues values
\* of [0, 1], each a floating-point number of at most MantissaBits bits.
CombineValues == {Zero, R(9, 128), Half, One}
CombineModes == {"add", "max", "overlay"}
ValueLists == UNION {[1 .. n -> CombineValues] : n \in 1 .. MaxValues}

CombineNext ==
  \E values \in ValueLists, combineMode \in CombineModes :
     callCombineInfluences(values, combineMode)

CombineSpec == Init /\ [][CombineNext]_vars

\* FieldSpec: computeInfluence of both strategies on the stores of a
\* controller that holds sensor a, with or without sensor b, every number
\* within the range of the data model; addLink and addAttenuator extend the
\* store.  The link weights are below, inside and above [0, 1].
FieldSensor(id, position, radius, intensity, enabled) ==
  [id |-> id, position |-> position, intensity |-> intensity,
   radius |-> radius, enabled |-> enabled]

FieldIntensities == {Zero, Half, One}

\* Sensor a: enabled at each intensity, or disabled at intensity 1.
FieldStates == {<<i, TRUE>> : i \in FieldIntensities} \cup {<<One, FALSE>>}

FieldSensors ==
  {<<FieldSensor("a", Vec(0, 0, 0), Num(4), a[1], a[2])>> \o b :
     a \in FieldStates,
     b \in {<<>>} \cup
           {<<FieldSensor("b", Vec(4, 0, 0), Num(2), j, f)>> :
              j \in {Half, One}, f \in BOOLEAN}}

FieldLinks == {<<<<"a", "b">>, w>> : w \in {Num(-1), One, Num(2)}}
              \cup {<<<<"c", "a">>, One>>}

FieldFactors == {Zero, Half}

FieldPoints ==
  {Vec(0, 0, 0), Vec(2, 0, 0), Vec(2, 0, 1), Vec(0, 0, 4), Vec(0, 0, 5)}

\* The controller after the sensors ss were added and patched.
FieldInit(ss) ==
  /\ host = "controller"
  /\ sensors = ss
  /\ links = <<>>
  /\ attenuators = <<>>
  /\ strategy \in StrategyNames
  /\ mode = "none"
  /\ visible = FALSE
  /\ scene = "null"
  /\ effectiveIntensityCache =
       StrategyUpdate(strategy, EmptyCache, Context(ss, <<>>, <<>>))
  /\ targetMeshes = {}
  /\ material = [m \in MeshIds |-> "original"]
  /\ meshBounds = NoBounds
  /\ isDirty = TRUE
  /\ lastRenderTime = 0
  /\ now = 0
  /\ rasterTimes = <<>>
  /\ calls = <<<<"update", strategy>>>>
  /\ op = Op("updateSensor", TRUE, 0, FALSE)
  /\ result = NoResult
  /\ RegistryInit

FieldNext ==
  \/ \E l \in FieldLinks : addLink(l[1][1], l[1][2], l[2])
  \/ \E f \in FieldFactors : addAttenuator("w", Vec(2, 0, 0), f, Num(2))
  \/ \E id \in {"a", "b"}, point \in FieldPoints :
        callComputeInfluence(id, point)

FieldSpec == (\E ss \in FieldSensors : FieldInit(ss)) /\ [][FieldNext]_vars

\* RasterSpec: the raster passes of render and the direct calls of
\* computeHeatmap, on a controller attached to mesh m1 whose store holds
\* sensor a, with or without sensor b, a link between them and an
\* attenuator; nothing changes the store.
RasterSensors ==
  {<<FieldSensor("a", Vec(0, 0, 0), Num(4), a[1], a[2])>> \o b :
     a \in FieldStates \ {<<Half, TRUE>>},
     b \in {<<>>} \cup
           {<<FieldSensor("b", Vec(4, 0, 0), Num(2), j, f)>> :
              j \in {Zero, One}, f \in BOOLEAN}}

RasterLinks == {<<>>, <<NewLink("a", "b", One)>>}

RasterAttenuators ==
  {<<>>, <<[id |-> "w", position |-> Vec(2, 0, 0), factor |-> Half,
           radius |-> Num(2)]>>}

\* The unit cube centred at the origin.
UnitCube ==
  [min |-> <<R(-1, 2), R(-1, 2), R(-1, 2)>>, max |-> <<Half, Half, Half>>]

RasterBounds == {UnitCube, BoundingBox("m1")}
RasterConfigs == {ControllerConfig, [ControllerConfig EXCEPT !.textureSize = 3]}

\* The controller after the store was filled and mesh m1 attached.
RasterInit(ss, ls, as) ==
  /\ host = "controller"
  /\ sensors = ss
  /\ links = ls
  /\ attenuators = as
  /\ strategy \in StrategyNames
  /\ mode = "none"
  /\ visible = FALSE
  /\ scene = "null"
  /\ effectiveIntensityCache =
       StrategyUpdate(strategy, EmptyCache, Context(ss, ls, as))
  /\ targetMeshes = {"m1"}
  /\ material = [m \in MeshIds |-> IF m = "m1" THEN "heatmap" ELSE "original"]
  /\ meshBounds = updateBounds({"m1"})
  /\ isDirty = TRUE
  /\ lastRenderTime = 0
  /\ now = 0
  /\ rasterTimes = <<>>
  /\ calls = <<>>
  /\ op = Op("attachToMesh", TRUE, 0, FALSE)
  /\ result = NoResult
  /\ RegistryInit

RasterNext ==
  \/ render
  \/ \E d \in TickSteps : Tick(d)
  \/ \E config \in RasterConfigs, bounds \in RasterBounds :
        callComputeHeatmap(config, bounds)

RasterSpec ==
  /\ \E ss \in RasterSensors, ls \in RasterLinks, as \in RasterAttenuators :
        RasterInit(ss, ls, as)
  /\ [][RasterNext]_vars

\* RelaxSpec: the Battery strategy's update on the stores of a controller
\* that addSensor, updateSensor and addLink fill in any order: up to three
\* sensors, of equal, close or distant intensities, the third enabled or
\* not, and up to two links that make a chain of them.
RelaxSensors ==
  {<<"a", Half>>, <<"a", R(15, 16)>>, <<"b", Half>>, <<"b", One>>,
   <<"c", R(15, 16)>>}
RelaxLinks == {<<"a", "b">>, <<"b", "c">>}

RelaxNext ==
  \/ \E s \in RelaxSensors : addSensor(s[1], Vec(0, 0, 0), s[2], Undefined)
  \/ updateSensor("c", [enabled |-> FALSE])
  \/ \E id \in RelaxLinks : addLink(id[1], id[2], One)

\* The controller constructed with the Battery strategy.
RelaxInit == CtlInit /\ strategy = "battery"

RelaxSpec == RelaxInit /\ [][RelaxNext]_vars

\* AxisSpec: direct calls of computeHeatmap on the bounding boxes whose
\* corners are drawn from AxisMins and AxisMaxs: the extents of the three
\* axes in every order, with and without ties, some of them rounded by the
\* subtraction; the store holds one sensor.
AxisMins == {Zero, R(-1, 16)}
AxisMaxs == {One, R(15, 8), Num(2)}
AxisBoxes ==
  {[min |-> <<m, m, m>>, max |-> <<x, y, z>>] :
     m \in AxisMins, x \in AxisMaxs, y \in AxisMaxs, z \in AxisMaxs}

AxisInit ==
  /\ RasterInit(<<FieldSensor("a", Vec(0, 0, 0), Num(4), One, TRUE)>>,
                <<>>, <<>>)
  /\ strategy = "signal"

AxisNext ==
  \E config \in RasterConfigs, bounds \in AxisBoxes :
     callComputeHeatmap(config, bounds)

AxisSpec == AxisInit /\ [][AxisNext]_vars

\* ------------------------------------------------------------------------
\* CommandRegistryService
\* ------------------------------------------------------------------------

\* What no operation of the registry touches.
HeatmapFixed ==
  UNCHANGED <<host, sensors, links, attenuators, strategy, mode, visible,
              scene, effectiveIntensityCache, targetMeshes, material,
              meshBounds, isDirty, lastRenderTime, now, rasterTimes, calls,
              op, result>>

\* const execConfig = { ...this.defaultConfig, ...config }
ExecConfig(config) ==
  [k \in DOMAIN defaultConfig |->
     IF k \in DOMAIN config THEN config[k] ELSE defaultConfig[k]]

\* The result runCommand returns when a middleware blocked the command.
Blocked == [success |-> FALSE, message |-> "Command blocked by middleware"]

\* The result runCommand returns when every attempt failed.
Exhausted(retryAttempts) ==
  [success |-> FALSE, message |-> "failed after attempts",
   attempts |-> retryAttempts]

\* What a handler promise can settle to.
HandlerSettlements ==
  {[how |-> "resolved", result |-> [success |-> s, message |-> "handler"]] :
     s \in BOOLEAN} \cup {[how |-> "threw"]}

\* What a middleware of this kind settles to on this scene: the logging
\* middleware returns the command, the scene validation throws without a
\* scene, a registered one may return the command, return null or throw.
MiddlewareVerdicts(kind, sc) ==
  IF kind = "logging" THEN {"command"}
  ELSE IF kind = "sceneValidation"
       THEN IF sc = "null" THEN {"throw"} ELSE {"command"}
       ELSE {"command", "null", "throw"}

\* executionState.status = status
WithStatus(states, id, status) ==
  IF MapHas(states, id)
  THEN MapSet(states, [MapGet(states, id) EXCEPT !.status = status])
  ELSE states

\* executionState.attempts = attempt
WithAttempts(states, id, attempt) ==
  IF MapHas(states, id)
  THEN MapSet(states, [MapGet(states, id) EXCEPT !.attempts = attempt])
  ELSE states

\* The promise of runCommand settles with a returned result.
Returns(value, status, tr, fl) ==
  /\ executionStates' = WithStatus(executionStates, frame.commandId, status)
  /\ frame' = [frame EXCEPT !.pc = "settled"]
  /\ outcome' = [settled |-> "resolved", result |-> value]
  /\ trace' = tr
  /\ inFlight' = fl

\* attempt <= execConfig.retryAttempts
LoopGoesOn(attempt, retryAttempts) == attempt <= retryAttempts

\* The head of the retry loop with the counter at attempt, the history at tr
\* and the pending handler promises fl: either the handler is invoked under
\* withTimeout, or the loop is left and the failure is returned.
StartAttempt(attempt, tr, fl) ==
  IF LoopGoesOn(attempt, frame.execConfig.retryAttempts)
  THEN /\ executionStates' =
            WithAttempts(executionStates, frame.commandId, attempt)
       /\ frame' = [frame EXCEPT !.pc = "attempt", !.attempt = attempt]
       /\ inFlight' = fl \cup {attempt}
       /\ trace' = [tr EXCEPT !.invoked = @ + 1]
       /\ outcome' = outcome
  ELSE Returns(Exhausted(frame.execConfig.retryAttempts), "failed", tr, fl)

\* Mutant of WaitsBeforeRetry: the delay is awaited after every failure.
WaitsAfterEveryFailure(attempt, retryAttempts) == TRUE

\* if (attempt < execConfig.retryAttempts) await this.delay(...)
WaitsBeforeRetry(attempt, retryAttempts) == attempt < retryAttempts

\* The catch block of the retry loop after the attempt ended as how, with
\* the handler promises fl pending.
Failed(how, fl) ==
  LET tr == [trace EXCEPT !.ended = Append(@, [how |-> how])]
  IN  IF WaitsBeforeRetry(frame.attempt, frame.execConfig.retryAttempts)
      THEN /\ frame' = [frame EXCEPT !.pc = "delay"]
           /\ trace' = [tr EXCEPT !.waited =
                                     Append(@, frame.execConfig.retryDelay)]
           /\ inFlight' = fl
           /\ UNCHANGED <<executionStates, outcome>>
      ELSE StartAttempt(frame.attempt + 1, tr, fl)

registerCommand(commandType) ==
  /\ commandHandlers' = commandHandlers \cup {commandType}
  /\ UNCHANGED <<middlewares, executionStates, frame, inFlight, trace,
                 outcome>>
  /\ HeatmapFixed

unregisterCommand(commandType) ==
  /\ commandHandlers' = commandHandlers \ {commandType}
  /\ UNCHANGED <<middlewares, executionStates, frame, inFlight, trace,
                 outcome>>
  /\ HeatmapFixed

registerMiddleware(kind) ==
  /\ Len(middlewares) < MaxMiddlewares
  /\ middlewares' = Append(middlewares, kind)
  /\ UNCHANGED <<commandHandlers, executionStates, frame, inFlight, trace,
                 outcome>>
  /\ HeatmapFixed

\* CommandRegistryService.initialize(): the logging and the scene
\* validation middlewares are registered.
registryInitialize ==
  /\ Len(middlewares) + 2 <= MaxMiddlewares
  /\ middlewares' = middlewares \o <<"logging", "sceneValidation">>
  /\ UNCHANGED <<commandHandlers, executionStates, frame, inFlight, trace,
                 outcome>>
  /\ HeatmapFixed

\* runCommand(command, scene, config) up to its first await, or to the
\* throw that rejects its promise when the type has no handler. One call
\* is followed at a time: the next one starts when the clean-up timer of
\* the previous one has fired and its handler promises have settled.
runCommand(command, sc, config) ==
  /\ frame.pc = "idle"
  /\ inFlight = {}
  /\ trace' = NoTrace
  /\ IF command.type \notin commandHandlers
     THEN /\ executionStates' =
               MapSet(executionStates,
                      [id |-> command.id, attempts |-> 0,
                       status |-> "pending"])
          /\ frame' = [pc |-> "settled", commandId |-> command.id,
                       scene |-> sc, execConfig |-> ExecConfig(config),
                       index |-> 0, attempt |-> 0]
          /\ outcome' = [settled |-> "rejected",
                         error |-> "No handler registered"]
     ELSE /\ executionStates' =
               MapSet(executionStates,
                      [id |-> command.id, attempts |-> 0,
                       status |-> "executing"])
          /\ frame' = [pc |-> "middlewares", commandId |-> command.id,
                       scene |-> sc, execConfig |-> ExecConfig(config),
                       index |-> 1, attempt |-> 0]
          /\ outcome' = NoOutcome
  /\ UNCHANGED <<commandHandlers, middlewares, inFlight>>
  /\ HeatmapFixed

\* runMiddlewares: the promise of the middleware at frame.index settles.
middlewareSettles(verdict) ==
  /\ frame.pc = "middlewares"
  /\ frame.index <= Len(middlewares)
  /\ verdict \in MiddlewareVerdicts(middlewares[frame.index], frame.scene)
  /\ IF verdict = "command"
     THEN /\ frame' = [frame EXCEPT !.index = @ + 1]
          /\ UNCHANGED <<executionStates, inFlight, trace, outcome>>
     ELSE /\ frame' = [frame EXCEPT !.pc = "settled"]
          /\ outcome' = [settled |-> "resolved", result |-> Blocked]
          /\ UNCHANGED <<executionStates, inFlight, trace>>
  /\ UNCHANGED <<commandHandlers, middlewares>>
  /\ HeatmapFixed

\* runMiddlewares returns the processed command and the retry loop begins.
middlewaresPassed ==
  /\ frame.pc = "middlewares"
  /\ frame.index > Len(middlewares)
  /\ StartAttempt(1, trace, inFlight)
  /\ UNCHANGED <<commandHandlers, middlewares>>
  /\ HeatmapFixed

\* The handler promise of an attempt settles: that of the attempt awaited
\* under withTimeout ends the attempt, that of an attempt the timeout had
\* abandoned changes nothing in runCommand.
handlerSettles(attempt, settlement) ==
  /\ attempt \in inFlight
  /\ IF frame.pc = "attempt" /\ frame.attempt = attempt
     THEN IF settlement.how = "resolved"
          THEN Returns(settlement.result, "completed",
                       [trace EXCEPT !.ended = Append(@, settlement)],
                       inFlight \ {attempt})
          ELSE Failed("threw", inFlight \ {attempt})
     ELSE /\ inFlight' = inFlight \ {attempt}
          /\ UNCHANGED <<executionStates, frame, trace, outcome>>
  /\ UNCHANGED <<commandHandlers, middlewares>>
  /\ HeatmapFixed

\* withTimeout: the timer of the attempt awaited fires before its handler
\* promise has settled; the race rejects and the handler promise is left
\* pending.
timeoutFires ==
  /\ frame.pc = "attempt"
  /\ Failed("timeout", inFlight)
  /\ UNCHANGED <<commandHandlers, middlewares>>
  /\ HeatmapFixed

\* The delay before a retry has elapsed.
delayElapses ==
  /\ frame.pc = "delay"
  /\ StartAttempt(frame.attempt + 1, trace, inFlight)
  /\ UNCHANGED <<commandHandlers, middlewares>>
  /\ HeatmapFixed

\* The timer set in the finally block fires, 30 seconds after the promise
\* has settled.
cleanupFires ==
  /\ frame.pc = "settled"
  /\ executionStates' = MapDelete(executionStates, frame.commandId)
  /\ frame' = [frame EXCEPT !.pc = "idle"]
  /\ UNCHANGED <<commandHandlers, middlewares, inFlight, trace, outcome>>
  /\ HeatmapFixed

\* RegistrySpec: one command type and one command id, runCommand with and
\* without a scene and with retryAttempts left to the default or set to 0,
\* 1 or 3.
RegistryCommands == {[type |-> "highlight", id |-> "cmd_1"]}
RegistryConfigs == {<<>>} \cup {[retryAttempts |-> n] : n \in {0, 1, 3}}

RegistryNext ==
  \/ \E c \in RegistryCommands : registerCommand(c.type)
  \/ \E c \in RegistryCommands : unregisterCommand(c.type)
  \/ registerMiddleware("custom")
  \/ registryInitialize
  \/ \E c \in RegistryCommands, sc \in {"scene", "null"},
        config \in RegistryConfigs : runCommand(c, sc, config)
  \/ \E verdict \in {"command", "null", "throw"} : middlewareSettles(verdict)
  \/ middlewaresPassed
  \/ \E attempt \in 1 .. 3, settlement \in HandlerSettlements :
        handlerSettles(attempt, settlement)
  \/ timeoutFires
  \/ delayElapses
  \/ cleanupFires

RegistrySpecInit ==
  /\ host = "registry"
  /\ sensors = <<>>
  /\ links = <<>>
  /\ attenuators = <<>>
  /\ strategy = "none"
  /\ mode = "none"
  /\ visible = FALSE
  /\ scene = "null"
  /\ effectiveIntensityCache = EmptyCache
  /\ targetMeshes = <<>>
  /\ material = [m \in MeshIds |-> "original"]
  /\ meshBounds = NoBounds
  /\ isDirty = FALSE
  /\ lastRenderTime = 0
  /\ now = 0
  /\ rasterTimes = <<>>
  /\ calls = <<>>
  /\ op = Op("constructor", TRUE, 0, FALSE)
  /\ result = NoResult
  /\ RegistryInit

RegistrySpec == RegistrySpecInit /\ [][RegistryNext]_vars

\* ------------------------------------------------------------------------
\* Properties
\* ------------------------------------------------------------------------

Range(s) == {s[i] : i \in DOMAIN s}

\* The time of the last raster pass, -1 before the first.
LastRaster == IF rasterTimes = <<>> THEN -1 ELSE rasterTimes[Len(rasterTimes)]

\* The step is an operation (the clock stands still) that ran a raster pass.
Rasterizes == now' = now /\ HasRaster(calls')

\* The number of strategy.update calls among cs.
UpdateCalls(cs) == Cardinality({i \in DOMAIN cs : cs[i][1] = "update"})

\* C1: a removeSensor(id) step, in either class, leaves no link whose
\* sensorA or sensorB is id, the identifier of none of these links is found
\* afterwards, and every link that does not touch id is kept as it was.
RemoveSensorCascades ==
  [][\A id \in StoreInputs.sensorIds \cup StoreInputs.svcSensorIds :
       (removeSensor(id) \/ svcRemoveSensor(id)) =>
         /\ \A l \in Range(links') : l.sensorA # id /\ l.sensorB # id
         /\ \A l \in Range(links) :
              IF l.sensorA = id \/ l.sensorB = id
              THEN ~MapHas(links', l.id)
              ELSE MapHas(links', l.id) /\ MapGet(links', l.id) = l]_vars

\* C1 witness: a removeSensor of a stored sensor dropped a link and kept
\* another one.
RemoveSensorCascadesWitness ==
  /\ op.name = "removeSensor"
  /\ op.hit
  /\ op.dropped > 0
  /\ links # <<>>

\* C2: with a region attached, a controller render() is skipped (no call on
\* the strategy or the texture, isDirty and lastRenderTime unchanged) exactly
\* when isDirty is false and less than renderThrottle ms have passed since
\* lastRenderTime; otherwise it resets isDirty, calls update first, hands
\* the grid of computeHeatmap to the texture last and sets lastRenderTime
\* to the current time.
RenderThrottled ==
  [][(render /\ meshBounds # NoBounds) =>
       IF ~isDirty /\ now - lastRenderTime < renderThrottle
       THEN /\ calls' = <<>>
            /\ UNCHANGED <<isDirty, lastRenderTime, effectiveIntensityCache,
                           rasterTimes>>
       ELSE /\ isDirty' = FALSE
            /\ lastRenderTime' = now
            /\ Head(calls') = <<"update", strategy>>
            /\ calls'[Len(calls')] =
                 <<"updateTexture",
                   computeHeatmap(ControllerConfig, strategy,
                                  effectiveIntensityCache', meshBounds,
                                  Context(sensors, links, attenuators))>>
            /\ rasterTimes' = Rastered(rasterTimes, now)]_vars

\* C2 witness: a render() with a region attached was skipped by the
\* throttle after an earlier raster pass.
RenderThrottledWitness ==
  /\ host = "controller"
  /\ op.name = "render"
  /\ meshBounds # NoBounds
  /\ calls = <<>>
  /\ ~isDirty
  /\ LastRaster >= 0
  /\ now - lastRenderTime < renderThrottle

\* C3 as stated: two raster passes are never less than renderThrottle ms
\* apart, whatever mutations and render() calls are interleaved.
RasterPassesApart ==
  [][(Rasterizes /\ LastRaster >= 0) =>
       now - LastRaster >= renderThrottle]_vars

\* C3 as amended: a raster pass happens only inside render(), never inside
\* a mutation, and a pass less than renderThrottle ms after the previous one
\* happens only when isDirty was set in between.
RasterPassesApartUnlessDirty ==
  [][Rasterizes =>
       /\ op'.name = "render"
       /\ (LastRaster >= 0 /\ now - LastRaster < renderThrottle) => isDirty
    ]_vars

\* C3 witness: a render() ran a raster pass less than renderThrottle ms
\* after the previous pass.
RasterPassesApartUnlessDirtyWitness ==
  /\ op.name = "render"
  /\ HasRaster(calls)
  /\ Len(rasterTimes) = 2
  /\ rasterTimes[2] - rasterTimes[1] < renderThrottle

\* The add, remove and update operations on sensors, links and attenuators.
CrudNames ==
  {"addSensor", "removeSensor", "updateSensor", "addLink", "removeLink",
   "clearLinks", "addAttenuator", "removeAttenuator", "updateAttenuator"}

\* A region is attached: the controller has bounds; the service has a
\* scene, is visible and tracks a mesh.
RegionAttached ==
  IF host = "controller" THEN meshBounds # NoBounds
  ELSE scene # "null" /\ visible /\ targetMeshes' # <<>>

\* C4: every add, remove and update operation whose target is in the store
\* or is created returns with isDirty = TRUE, and a render() called with
\* isDirty = TRUE and a region attached runs a raster pass whatever the
\* elapsed time.
MutationsSetDirty ==
  [][/\ (now' = now /\ op'.name \in CrudNames /\ op'.hit) => isDirty'
     /\ (now' = now /\ op'.name = "render" /\ isDirty /\ RegionAttached) =>
          HasRaster(calls')]_vars

\* C4 witness: updateAttenuator on a stored attenuator, called in the same
\* millisecond as the render() that had reset isDirty, left isDirty = TRUE.
MutationsSetDirtyWitness ==
  /\ op.name = "updateAttenuator"
  /\ op.hit
  /\ isDirty
  /\ LastRaster = now
  /\ lastRenderTime = now

\* C5: in the controller with the Battery strategy, after any mutations and
\* no render, effectiveIntensityCache is what BatteryStrategy.update
\* computes on the current sensors and links.
BatteryCacheFresh ==
  (host = "controller" /\ strategy = "battery") =>
     effectiveIntensityCache =
       BatteryUpdate(Context(sensors, links, attenuators))

\* C5 witness: an updateSensor on a stored sensor under the Battery
\* strategy, with a link over which the diffusion moved a sensor's
\* effective intensity away from its own intensity.
BatteryCacheFreshWitness ==
  /\ host = "controller"
  /\ strategy = "battery"
  /\ op.name = "updateSensor"
  /\ op.hit
  /\ links # <<>>
  /\ \E i \in DOMAIN sensors :
        /\ sensors[i].enabled
        /\ effectiveIntensityCache[sensors[i].id] # sensors[i].intensity

\* The strategy that is active: config.strategy of the controller, the one
\* config.mode selects in the service.
ActiveStrategy == IF host = "controller" THEN strategy ELSE getStrategy(mode)

\* The step is a swap of the active strategy: setStrategy of the controller,
\* a setConfig of the service that changes the mode.
Swaps ==
  /\ now' = now
  /\ \/ op'.name = "setStrategy"
     \/ op'.name = "setConfig" /\ op'.swapped

DetachedRenderIsNoOp ==
  [][/\ ((\E mesh \in MeshIds : detachFromMesh(mesh)) /\ targetMeshes' = {})
          => meshBounds' = NoBounds
     /\ (render /\ targetMeshes = {}) =>
          /\ calls' = <<>>
          /\ UNCHANGED <<isDirty, lastRenderTime, effectiveIntensityCache,
                         rasterTimes, material>>
     /\ (\E mesh \in MeshIds : attachToMesh(mesh)) =>
          isDirty' /\ meshBounds' # NoBounds
     /\ (isDirty /\ ~isDirty') => (render /\ HasRaster(calls'))
     /\ (render /\ targetMeshes # {} /\ isDirty) =>
          /\ HasRaster(calls')
          /\ rasterTimes' = Rastered(rasterTimes, now)]_vars

\* C7 witness: after a raster pass the last mesh was detached, a mutation
\* set isDirty, and a render() did nothing.
DetachedRenderIsNoOpWitness ==
  /\ op.name = "render"
  /\ targetMeshes = {}
  /\ LastRaster >= 0
  /\ isDirty
  /\ sensors # <<>>
  /\ calls = <<>>

\* C8 as stated: an update or remove operation on an identifier that is not
\* in the store leaves the sensors, links, attenuators and isDirty as they
\* were.
UnknownIdIsNoOp ==
  [][(/\ now' = now
      /\ op'.name \in {"updateSensor", "updateAttenuator", "removeSensor",
                       "removeLink", "removeAttenuator"}
      /\ ~op'.hit)
       => UNCHANGED <<sensors, links, attenuators, isDirty>>]_vars

\* C9 as stated: every stored sensor has radius > 0 and 0 <= intensity <= 1.
SensorsInRange ==
  \A i \in DOMAIN sensors :
     /\ RLt(Zero, sensors[i].radius)
     /\ RLe(Zero, sensors[i].intensity)
     /\ RLe(sensors[i].intensity, One)

\* A render() that is not skipped and runs a raster pass: the class can
\* rasterize, the throttle test lets the call through, and a grid is
\* written.
RenderRuns ==
  /\ now' = now
  /\ op'.name = "render"
  /\ IF host = "controller" THEN meshBounds # NoBounds
     ELSE scene # "null" /\ visible
  /\ isDirty \/ now - lastRenderTime >= renderThrottle
  /\ HasRaster(calls')

\* C10 as stated: every render() that is not skipped calls strategy.update
\* exactly once, before any computeInfluence call of the pass (and so not
\* once per cell).
UpdateOncePerPass ==
  [][RenderRuns =>
       /\ UpdateCalls(calls') = 1
       /\ calls'[1][1] = "update"]_vars

\* ------------------------------------------------------------------------
\* Properties of the strategies and of the rasterizer
\* ------------------------------------------------------------------------

InUnit(v) == RLe(Zero, v) /\ RLe(v, One)

\* The largest element of a non-empty list.
Largest(values) ==
  CHOOSE v \in Range(values) : \A w \in Range(values) : RLe(w, v)

\* The unit roundoff of the arithmetic: half the gap between 1 and the
\* next number (2^-53 for a double).
UnitRoundoff == R(1, Pow2(MantissaBits))

\* C14 as stated: for every non-empty list of values of [0, 1],
\* combineInfluences returns a value of [0, 1] in each of the modes add, max
\* and overlay, the max result is the largest element of the list, and the
\* overlay result is at least the max result.
CombineBounds ==
  result.name = "combineInfluences" =>
    /\ InUnit(result.value)
    /\ result.combineMode = "max" =>
         result.value = Largest(result.values)
    /\ result.combineMode = "overlay" =>
         RLe(combineInfluences(result.values, "max"), result.value)

\* C14 amended: as above, except that the overlay result may fall below
\* the max result by the rounding of its subtractions and products, and by
\* no more than the length of the list times the unit roundoff.
CombineBoundsRounded ==
  result.name = "combineInfluences" =>
    /\ InUnit(result.value)
    /\ result.combineMode = "max" =>
         result.value = Largest(result.values)
    /\ result.combineMode = "overlay" =>
         RLe(RSub(combineInfluences(result.values, "max"),
                  RMul(Num(Len(result.values)), UnitRoundoff)),
             result.value)

\* C14 witness: an overlay of two values that rounding left below the
\* larger of them.
CombineBoundsRoundedWitness ==
  /\ result.name = "combineInfluences"
  /\ result.combineMode = "overlay"
  /\ Len(result.values) = 2
  /\ RLt(result.value, Largest(result.values))

\* The store as a context.
Store == Context(sensors, links, attenuators)

\* The context without its links; the link added last.
Unlinked(context) == [context EXCEPT !.links = <<>>]
LastLink == links[Len(links)]

\* C12: in any context, SignalStrategy.computeInfluence returns exactly 0
\* for a sensor that is disabled or has intensity 0, at every sample point,
\* also when the sensor is linked to an enabled neighbour of intensity > 0.
SignalZeroIsolation ==
  (/\ result.name = "computeInfluence"
   /\ strategy = "signal"
   /\ (~result.sensor.enabled \/ result.sensor.intensity = Zero))
  => result.value = Zero

\* C12 witness: computeInfluence was called for an enabled sensor of
\* intensity 0, linked with weight 2 to an enabled neighbour of intensity 1,
\* at the middle of the segment between the two.
SignalZeroIsolationWitness ==
  /\ result.name = "computeInfluence"
  /\ strategy = "signal"
  /\ result.sensor.id = "a"
  /\ result.sensor.enabled
  /\ result.sensor.intensity = Zero
  /\ result.point = Vec(2, 0, 0)
  /\ attenuators = <<>>
  /\ MapHas(links, <<"a", "b">>)
  /\ MapGet(links, <<"a", "b">>).weight = Num(2)
  /\ MapHas(sensors, "b")
  /\ MapGet(sensors, "b").enabled
  /\ MapGet(sensors, "b").intensity = One

\* C15 as stated: computeInfluence of either strategy returns a value of
\* [0, 1] for every sensor with intensity in [0, 1] and radius > 0, at every
\* sample point and in every context whose attenuator factors lie in
\* [0, 1], whatever the link weights.
InfluenceInUnit ==
  (/\ result.name = "computeInfluence"
   /\ InUnit(result.sensor.intensity)
   /\ RLt(Zero, result.sensor.radius)
   /\ \A a \in Range(attenuators) : InUnit(a.factor))
  => InUnit(result.value)

\* A step that adds a link, or an attenuator, under a new identifier.
AddsLink == op'.name = "addLink" /\ Len(links') = Len(links) + 1
AddsAttenuator ==
  op'.name = "addAttenuator" /\ Len(attenuators') = Len(attenuators) + 1

\* SignalStrategy.computeInfluence of every sensor of the store at every
\* sample point, in the context cx.
SignalField(cx) ==
  [i \in DOMAIN cx.sensors |->
     [p \in FieldPoints |->
        SignalComputeInfluence(cx.sensors[i], p, cx)]]

\* C16: adding a link never lowers SignalStrategy.computeInfluence: for
\* every sensor of the store, every sample point and every link weight, the
\* influence on the store with the new link is at least the influence on
\* the store before the link was added.
LinkNeverLowers ==
  [][AddsLink =>
       \A i \in DOMAIN sensors, p \in FieldPoints :
          RLe(SignalField(Store)[i][p], SignalField(Store')[i][p])]_vars

\* C16 witness: a link was added between two enabled sensors, and
\* computeInfluence of one of them at the middle of the segment is above
\* what it is without the links.
LinkNeverLowersWitness ==
  /\ op.name = "addLink"
  /\ strategy = "signal"
  /\ Len(links) = 1
  /\ result.name = "computeInfluence"
  /\ result.point = Vec(2, 0, 0)
  /\ RLt(SignalComputeInfluence(result.sensor, result.point, Unlinked(Store)),
         result.value)

\* The attenuators of a context removed.
Unattenuated(context) == [context EXCEPT !.attenuators = <<>>]

\* C17: in Signal mode, adding an AttenuationPoint with factor in [0, 1)
\* never increases computeInfluence: for every sensor of the store and every
\* sample point the influence with the attenuator is at most the influence
\* without it, and at the sample points outside the attenuator's radius the
\* two are equal.
AttenuatorNeverRaises ==
  [][(AddsAttenuator /\ RLt(attenuators'[Len(attenuators')].factor, One)) =>
       \A i \in DOMAIN sensors, p \in FieldPoints :
          /\ RLe(SignalField(Store')[i][p], SignalField(Store)[i][p])
          /\ RLt(attenuators'[Len(attenuators')].radius,
                 Distance(attenuators'[Len(attenuators')].position, p))
             => SignalField(Store')[i][p] = SignalField(Store)[i][p]]_vars

\* C17 witness: an attenuator of factor 1/2 was added, and computeInfluence
\* of an enabled sensor at a point inside its radius is positive and below
\* what it is without the attenuator.
AttenuatorNeverRaisesWitness ==
  /\ op.name = "addAttenuator"
  /\ strategy = "signal"
  /\ Len(attenuators) = 1
  /\ attenuators[1].factor = Half
  /\ result.name = "computeInfluence"
  /\ result.point = Vec(2, 0, 1)
  /\ RLt(Zero, result.value)
  /\ RLt(result.value,
         SignalComputeInfluence(result.sensor, result.point,
                                Unattenuated(Store)))

\* The store holds two enabled sensors of the same intensity joined by one
\* link, and the Battery strategy is active.
SymmetricPair ==
  /\ strategy = "battery"
  /\ Len(sensors) = 2
  /\ sensors[1].enabled /\ sensors[2].enabled
  /\ sensors[1].intensity = sensors[2].intensity
  /\ Len(links) = 1
  /\ links[1].id = <<sensors[1].id, sensors[2].id>>

\* C18: for two enabled sensors of the same intensity I joined by one link,
\* BatteryStrategy.update leaves both cached effective intensities equal to
\* I, and it has converged: one more sweep changes no value, so that the
\* loop ended on its first pass, within the 5 iterations.
BatterySymmetricConverges ==
  SymmetricPair =>
    /\ \A i \in DOMAIN sensors :
         effectiveIntensityCache[sensors[i].id] = sensors[1].intensity
    /\ Sweep(Store, effectiveIntensityCache).values = effectiveIntensityCache
    /\ RLt(Sweep(Store, effectiveIntensityCache).maxChange,
           ConvergenceThreshold)

\* C18 witness: two enabled sensors of intensity 1/2 were linked and the
\* update of addLink ran.
BatterySymmetricConvergesWitness ==
  /\ SymmetricPair
  /\ op.name = "addLink"
  /\ calls = <<<<"update", "battery">>>>
  /\ sensors[1].intensity = Half

\* An end of the link is absent from the store or disabled.
DeadEnd(link) ==
  \E id \in {link.sensorA, link.sensorB} :
     ~MapHas(sensors, id) \/ ~MapGet(sensors, id).enabled

\* C19: a link one of whose endpoints is absent from the sensor store or
\* disabled contributes nothing: when such a link is added,
\* SignalStrategy.computeInfluence of every sensor at every sample point and
\* the cache BatteryStrategy.update leaves are what they are on the store
\* without the link.
DeadLinkContributesNothing ==
  [][(AddsLink /\ DeadEnd(links'[Len(links')])) =>
       /\ SignalField(Store') = SignalField(Store)
       /\ BatteryUpdate(Store') = BatteryUpdate(Store)]_vars

\* C19 witness: a link of weight 2 was added last between an enabled sensor
\* of intensity > 0 and a disabled sensor of intensity 1, with the Battery
\* update run on it.
DeadLinkContributesNothingWitness ==
  /\ op.name = "addLink"
  /\ strategy = "battery"
  /\ LastLink.id = <<"a", "b">>
  /\ LastLink.weight = Num(2)
  /\ MapHas(sensors, "b")
  /\ ~MapGet(sensors, "b").enabled
  /\ MapGet(sensors, "b").intensity = One
  /\ MapGet(sensors, "a").enabled
  /\ RLt(Zero, MapGet(sensors, "a").intensity)
  /\ effectiveIntensityCache = BatteryUpdate(Store)

\* The grid the raster pass among the calls cs handed to the texture.
GridOf(cs) == cs[Len(cs)][2]

\* C11: rasterization is deterministic: a raster pass of render that
\* follows another one with no operation on the store or the region in
\* between hands the texture the same grid, under the Signal and under the
\* Battery strategy, whose update runs again before the second pass.
RasterDeterministic ==
  [][(/\ op.name = "render" /\ HasRaster(calls)
      /\ Rasterizes /\ rasterTimes' = Rastered(rasterTimes, now))
     => GridOf(calls') = GridOf(calls)]_vars

\* C11 witness: two raster passes, a throttle window apart, of a store on
\* which the Battery relaxation does not converge (two linked enabled
\* sensors of intensities 1 and 0), with a cell above 0.
RasterDeterministicWitness ==
  /\ strategy = "battery"
  /\ op.name = "render"
  /\ HasRaster(calls)
  /\ rasterTimes = <<0, renderThrottle>>
  /\ Len(sensors) = 2
  /\ sensors[1].enabled /\ sensors[1].intensity = One
  /\ sensors[2].enabled /\ sensors[2].intensity = Zero
  /\ Len(links) = 1
  /\ RLt(Zero, GridOf(calls)[1][1])

\* At least one sensor is enabled and every enabled sensor has intensity 0.
AllEnabledZero ==
  /\ \E i \in DOMAIN sensors : sensors[i].enabled
  /\ \A i \in DOMAIN sensors :
       sensors[i].enabled => sensors[i].intensity = Zero

ZeroGrid(grid) ==
  \A y \in DOMAIN grid : \A x \in DOMAIN grid[y] : grid[y][x] = Zero

\* C13: with zeroForceRed set, at least one enabled sensor and every
\* enabled sensor at intensity 0, every cell of the grid of a raster pass
\* and of a direct computeHeatmap is exactly 0, under either strategy and
\* whatever links, attenuators and disabled sensors the store holds.
ZeroForcesZero ==
  AllEnabledZero =>
    /\ HasRaster(calls) => ZeroGrid(GridOf(calls))
    /\ (result.name = "computeHeatmap" /\ result.config.zeroForceRed)
       => ZeroGrid(result.grid)

\* C13 witness: a raster pass under the Battery strategy of a store with an
\* enabled sensor of intensity 0 linked to a disabled sensor of intensity
\* 1, and an attenuator.
ZeroForcesZeroWitness ==
  /\ AllEnabledZero
  /\ strategy = "battery"
  /\ HasRaster(calls)
  /\ ControllerConfig.zeroForceRed
  /\ Len(sensors) = 2
  /\ ~sensors[2].enabled /\ sensors[2].intensity = One
  /\ Len(links) = 1
  /\ Len(attenuators) = 1

\* The store, region and configuration of the end-to-end example were
\* rasterized by a direct call.
EndToEndCase ==
  /\ result.name = "computeHeatmap"
  /\ result.bounds = UnitCube
  /\ result.config.textureSize = 3
  /\ result.config.combineMode = "max"
  /\ strategy = "signal"
  /\ sensors = <<FieldSensor("a", Vec(0, 0, 0), Num(4), One, TRUE)>>
  /\ links = <<>>
  /\ attenuators = <<>>

\* C20: with one Signal sensor at the origin (radius 4, intensity 1), the
\* unit cube centred at the origin as region, resolution 3x3 and combine mode
\* max, the centre cell of the grid is at least every cell of the grid and
\* strictly greater than each of the four corner cells.
EndToEnd ==
  EndToEndCase =>
    /\ \A y \in 1 .. 3, x \in 1 .. 3 :
         RLe(result.grid[y][x], result.grid[2][2])
    /\ \A y \in {1, 3}, x \in {1, 3} :
         RLt(result.grid[y][x], result.grid[2][2])

\* C20 witness: the example was rasterized; its centre cell, at the sensor,
\* holds 1 and its corner cells hold a value above 0.
EndToEndWitness ==
  /\ EndToEndCase
  /\ result.grid[2][2] = One
  /\ RLt(Zero, result.grid[1][1])

\* C21: for an enabled sensor under the Signal strategy, in a store without
\* links and attenuators, computeInfluence is exactly 0 at every point whose
\* distance to the sensor is at least the sensor's radius, and it does not
\* increase with the distance: at every sample point at least as far from
\* the sensor as the point of the call, the influence is at most the value
\* the call returned.
SignalFalloff ==
  (/\ result.name = "computeInfluence"
   /\ strategy = "signal"
   /\ result.sensor.enabled
   /\ links = <<>>
   /\ attenuators = <<>>)
  => /\ RLe(result.sensor.radius,
            Distance(result.sensor.position, result.point))
        => result.value = Zero
     /\ \A q \in FieldPoints :
          RLe(Distance(result.sensor.position, result.point),
              Distance(result.sensor.position, q))
          => RLe(SignalComputeInfluence(result.sensor, q, Store),
                 result.value)

\* C21 witness: the store holds one enabled sensor of radius 4 and
\* intensity > 0, and computeInfluence was called at a point at distance 4;
\* at a nearer sample point the influence is above 0.
SignalFalloffWitness ==
  /\ result.name = "computeInfluence"
  /\ strategy = "signal"
  /\ Len(sensors) = 1
  /\ result.sensor.enabled
  /\ RLt(Zero, result.sensor.intensity)
  /\ links = <<>>
  /\ attenuators = <<>>
  /\ Distance(result.sensor.position, result.point) = result.sensor.radius
  /\ RLt(Zero, SignalComputeInfluence(result.sensor, Vec(2, 0, 1), Store))

\* The values after n sweeps of the relaxation from the raw values, and
\* maxChange of the n-th sweep.
RECURSIVE Relaxed(_, _)
Relaxed(context, n) ==
  IF n = 0 THEN RawValues(context)
  ELSE Sweep(context, Relaxed(context, n - 1)).values

ChangeOf(context, n) == Sweep(context, Relaxed(context, n - 1)).maxChange

\* The run of update made `sweeps` sweeps and stopped where the loop stops:
\* no sweep before the last had a maxChange below the threshold, and the
\* last one had unless it was the fifth.
StopsAt(context, sweeps) ==
  /\ sweeps \in 1 .. maxIterations
  /\ \A n \in 1 .. sweeps - 1 :
       ~RLt(ChangeOf(context, n), ConvergenceThreshold)
  /\ sweeps < maxIterations
     => RLt(ChangeOf(context, sweeps), ConvergenceThreshold)

\* C22: BatteryStrategy.update ends, having made at most 5 sweeps and none
\* after the first sweep whose maxChange is below 0.001; without links it
\* makes no sweep and the cache holds the raw intensity of each enabled
\* sensor and 0 for each disabled one; the cache it leaves has an entry for
\* exactly the sensors of the context.
BatteryUpdateStops ==
  /\ effectiveIntensityCache = BatteryRun(Store).values
  /\ DOMAIN effectiveIntensityCache = MapIds(sensors)
  /\ links = <<>> =>
       /\ BatteryRun(Store).sweeps = 0
       /\ \A i \in DOMAIN sensors :
            effectiveIntensityCache[sensors[i].id] =
              IF sensors[i].enabled THEN sensors[i].intensity ELSE Zero
  /\ links # <<>> =>
       /\ StopsAt(Store, BatteryRun(Store).sweeps)
       /\ effectiveIntensityCache = Relaxed(Store, BatteryRun(Store).sweeps)

\* C22 witness: addLink ran update on two enabled sensors of intensities
\* 15/16 and 1, and the loop stopped after its second sweep.
BatteryUpdateStopsWitness ==
  /\ op.name = "addLink"
  /\ calls = <<<<"update", "battery">>>>
  /\ Len(sensors) = 2
  /\ \A i \in DOMAIN sensors : sensors[i].enabled
  /\ BatteryRun(Store).sweeps = 2
  /\ RLt(ConvergenceThreshold, ChangeOf(Store, 1))

\* The orders in which the elements of the sequence s can be listed.
Orders(s) ==
  {[i \in DOMAIN s |-> s[f[i]]] :
     f \in {g \in [DOMAIN s -> DOMAIN s] :
              \A i, j \in DOMAIN s : g[i] = g[j] => i = j}}

\* Whether the link joins the sensor s to a sensor of the context that is
\* enabled; the other end of the link.
OtherEnd(link, s) == IF link.sensorA = s.id THEN link.sensorB ELSE link.sensorA

JoinsEnabled(link, s, context) ==
  /\ link.sensorA = s.id \/ link.sensorB = s.id
  /\ MapHas(context.sensors, OtherEnd(link, s))
  /\ MapGet(context.sensors, OtherEnd(link, s)).enabled

\* <<sum, count>> of sensor s over the first k links of the context: its
\* raw intensity and the values in prev of its enabled neighbours, one per
\* link, added in the order of the links.
JoinedTo(acc, link, s, context, prev) ==
  IF JoinsEnabled(link, s, context)
  THEN <<FAdd(acc[1], prev[OtherEnd(link, s)]), acc[2] + 1>>
  ELSE acc

RECURSIVE SumOver(_, _, _, _)
SumOver(s, context, prev, k) ==
  IF k = 0 THEN <<s.intensity, 1>>
  ELSE JoinedTo(SumOver(s, context, prev, k - 1), context.links[k], s,
                context, prev)

Quotient(sc) == Fl(RDiv(sc[1], Num(sc[2])))

\* In the n-th sweep on the store, the new value of every enabled sensor is
\* the quotient of its sum and count over the values of the sweep before.
SweepAverages(n) ==
  \A i \in DOMAIN sensors :
     sensors[i].enabled =>
       Relaxed(Store, n)[sensors[i].id] =
         Quotient(SumOver(sensors[i], Store, Relaxed(Store, n - 1),
                          Len(links)))

\* Every sensor of the store is an end of at most one link.
SingleLinks ==
  \A i \in DOMAIN sensors :
     Cardinality({k \in DOMAIN links :
                    links[k].sensorA = sensors[i].id
                    \/ links[k].sensorB = sensors[i].id}) <= 1

\* C23 as stated: within one sweep of BatteryStrategy.update the new value
\* of every enabled sensor is (own raw intensity + sum of the values of its
\* enabled neighbours from the sweep before) / (1 + number of enabled
\* neighbours), new values being committed after the whole sweep; and the
\* cache update leaves is the same for every order of the sensors and every
\* order of the links of the context.
SweepOrderFree ==
  /\ \A n \in 1 .. BatteryRun(Store).sweeps : SweepAverages(n)
  /\ \A ss \in Orders(sensors), ls \in Orders(links) :
       BatteryUpdate(Context(ss, ls, attenuators)) = effectiveIntensityCache

\* C23 amended: the new values are as above, the sum being accumulated in
\* floating-point arithmetic in the order of the links; the cache update
\* leaves is the same for every order of the sensors, and for every order
\* of the links when every sensor is an end of at most one link.
SweepOrderFreeOfSensors ==
  /\ \A n \in 1 .. BatteryRun(Store).sweeps : SweepAverages(n)
  /\ \A ss \in Orders(sensors) :
       BatteryUpdate(Context(ss, links, attenuators))
         = effectiveIntensityCache
  /\ SingleLinks =>
       \A ss \in Orders(sensors), ls \in Orders(links) :
          BatteryUpdate(Context(ss, ls, attenuators))
            = effectiveIntensityCache

\* C23 witness: addLink ran update on three enabled sensors in a chain of
\* two links, the loop made at least two sweeps, and with the two links
\* listed the other way round update leaves another cache.
SweepOrderFreeOfSensorsWitness ==
  /\ op.name = "addLink"
  /\ Len(sensors) = 3
  /\ \A i \in DOMAIN sensors : sensors[i].enabled
  /\ Len(links) = 2
  /\ BatteryRun(Store).sweeps >= 2
  /\ effectiveIntensityCache = BatteryUpdate(Store)
  /\ BatteryUpdate(Context(sensors, <<links[2], links[1]>>, attenuators))
       # effectiveIntensityCache

\* The extent of the bounding box b on axis k (1, 2, 3 for x, y, z) as the
\* rasterizer computes it, max - min rounded, and as it is.
Extent(b, k) == FSub(b.max[k], b.min[k])
TrueExtent(b, k) == RSub(b.max[k], b.min[k])

\* The axis of rank r (1 the largest) among the extents e, an earlier axis
\* before a later one of the same extent.
AxisOfRank(e, r) ==
  CHOOSE k \in 1 .. 3 :
    Cardinality({j \in 1 .. 3 :
                   RLt(e[k], e[j]) \/ (e[j] = e[k] /\ j < k)}) = r - 1

\* The sample points of the grid of the direct call of computeHeatmap, by
\* column x and row y.
Points ==
  [x \in 0 .. result.config.textureSize - 1 |->
     [y \in 0 .. result.config.textureSize - 1 |->
        SamplePoint(result.bounds, result.config.textureSize,
                    result.config.uvVFlipped, x, y)]]

\* The points pts lie on the axes h (by column), v (by row) and f (fixed
\* at mid) of the box b, between the corner b.min and the corner last,
\* with column 0 at the minimum and the last column at last.
LaidOut(pts, b, h, v, f, mid, last) ==
  \A x \in DOMAIN pts, y \in DOMAIN pts :
     /\ pts[x][y][h] = pts[x][0][h]
     /\ pts[x][y][v] = pts[0][y][v]
     /\ pts[x][y][f] = mid
     /\ \A k \in 1 .. 3 :
          RLe(b.min[k], pts[x][y][k]) /\ RLe(pts[x][y][k], last[k])
     /\ x = 0 => pts[x][y][h] = b.min[h]
     /\ x + 1 = Cardinality(DOMAIN pts) => pts[x][y][h] = last[h]

\* C24 as stated: the rasterizer maps the horizontal index to the axis of
\* largest extent, the vertical index to the axis of second-largest extent
\* and keeps the axis of smallest extent at its midpoint, ties in the order
\* x, y, z; every sample point lies inside the bounding box, column 0 at
\* the minimum and the last column at the maximum of the horizontal axis.
SamplesInBox ==
  result.name = "computeHeatmap" =>
    LaidOut(Points, result.bounds,
            AxisOfRank([k \in 1 .. 3 |-> TrueExtent(result.bounds, k)], 1),
            AxisOfRank([k \in 1 .. 3 |-> TrueExtent(result.bounds, k)], 2),
            AxisOfRank([k \in 1 .. 3 |-> TrueExtent(result.bounds, k)], 3),
            RDiv(RAdd(result.bounds.min[
                   AxisOfRank([k \in 1 .. 3 |->
                                 TrueExtent(result.bounds, k)], 3)],
                      result.bounds.max[
                   AxisOfRank([k \in 1 .. 3 |->
                                 TrueExtent(result.bounds, k)], 3)]),
                 Num(2)),
            result.bounds.max)

\* min + (max - min) of the box b on each axis, as floating-point
\* arithmetic evaluates it, and the floating-point midpoint of axis k.
LastOf(b) == [k \in 1 .. 3 |-> FAdd(b.min[k], Extent(b, k))]
MidOf(b, k) == Fl(RDiv(FAdd(b.min[k], b.max[k]), Num(2)))

\* C24 amended: as above with the extents, the midpoint and the far corner
\* of the box evaluated in floating-point arithmetic: the axes are ranked
\* by max - min as rounded, the fixed axis is at the rounded midpoint, and
\* every sample point lies between the minimum and min + (max - min) as
\* rounded, the last column at that value, which is within
\* 2 * (|max| + |max - min|) unit roundoffs of the maximum.
SamplesInRoundedBox ==
  result.name = "computeHeatmap" =>
    /\ LaidOut(Points, result.bounds,
               AxisOfRank([k \in 1 .. 3 |-> Extent(result.bounds, k)], 1),
               AxisOfRank([k \in 1 .. 3 |-> Extent(result.bounds, k)], 2),
               AxisOfRank([k \in 1 .. 3 |-> Extent(result.bounds, k)], 3),
               MidOf(result.bounds,
                     AxisOfRank([k \in 1 .. 3 |->
                                   Extent(result.bounds, k)], 3)),
               LastOf(result.bounds))
    /\ \A k \in 1 .. 3 :
         RLe(RAbs(RSub(LastOf(result.bounds)[k], result.bounds.max[k])),
             RMul(RMul(Num(2), UnitRoundoff),
                  RAdd(RAbs(result.bounds.max[k]),
                       TrueExtent(result.bounds, k))))

\* C24 witness: a 3x3 grid was computed on a box whose z axis is the
\* largest and whose x and y axes are of the same extent, the subtraction
\* rounding the extents, so that the last column lies beyond the maximum.
SamplesInRoundedBoxWitness ==
  /\ result.name = "computeHeatmap"
  /\ result.config.textureSize = 3
  /\ AxisOfRank([k \in 1 .. 3 |-> Extent(result.bounds, k)], 1) = 3
  /\ AxisOfRank([k \in 1 .. 3 |-> Extent(result.bounds, k)], 2) = 1
  /\ Extent(result.bounds, 1) = Extent(result.bounds, 2)
  /\ RLt(result.bounds.max[3], Points[2][0][3])

\* The grid of a raster pass on the store with zeroForceRed set to flag.
GridWith(flag) ==
  computeHeatmap([ControllerConfig EXCEPT !.zeroForceRed = flag], strategy,
                 effectiveIntensityCache, meshBounds, Store)

\* C25: zeroForceRed does not change what render rasterizes: on every
\* store and under both strategies, the grid a raster pass of render hands
\* to the texture is the grid computed with zeroForceRed set and the grid
\* computed with zeroForceRed cleared.
ZeroForceRedundant ==
  (op.name = "render" /\ HasRaster(calls)) =>
    /\ GridOf(calls) = GridWith(TRUE)
    /\ GridOf(calls) = GridWith(FALSE)

\* C25 witness: a raster pass of render under the Signal strategy on a
\* store whose only enabled sensor has intensity 0 and is linked to a
\* disabled sensor of intensity 1, with an attenuator.
ZeroForceRedundantWitness ==
  /\ op.name = "render"
  /\ HasRaster(calls)
  /\ AllEnabledZero
  /\ strategy = "signal"
  /\ Len(sensors) = 2
  /\ ~sensors[2].enabled /\ sensors[2].intensity = One
  /\ Len(links) = 1
  /\ Len(attenuators) = 1
  /\ ZeroGrid(GridWith(FALSE))

\* C26: in HeatmapService every raster pass of render() made in battery
\* mode reads an effectiveIntensityCache equal to what BatteryStrategy.update
\* computes on the sensors and links the pass rasterizes, whatever
\* operations came before.
ServiceRasterReadsFreshCache ==
  [][(host = "service" /\ op'.name = "render" /\ HasRaster(calls')
        /\ getStrategy(mode') = "battery") =>
       /\ UNCHANGED <<sensors, links, effectiveIntensityCache>>
       /\ effectiveIntensityCache =
            BatteryUpdate(Context(sensors, links, attenuators))]_vars

\* C26 witness: a raster pass of the service in battery mode on a store
\* with a link over which the diffusion moved an enabled sensor's effective
\* intensity away from its own intensity.
ServiceRasterReadsFreshCacheWitness ==
  /\ host = "service"
  /\ op.name = "render"
  /\ HasRaster(calls)
  /\ getStrategy(mode) = "battery"
  /\ links # <<>>
  /\ \E i \in DOMAIN sensors :
        /\ sensors[i].enabled
        /\ effectiveIntensityCache[sensors[i].id] # sensors[i].intensity

\* C27: in HeatmapService, every render() that runs its raster passes while
\* the heatmap is visible leaves every mesh that has an enabled sensor
\* attached with the heatmap material of its ShaderManager, also when the
\* heatmap was hidden and shown again before.
ShownMeshesCarryHeatmap ==
  [][(host = "service" /\ op'.name = "render" /\ visible'
        /\ HasRaster(calls')) =>
       \A meshId \in CurrentTargetIds(sensors') :
          material'[meshId] = "heatmap"]_vars

\* The attempts of the runCommand call that ended without a result.
FailedAttempts == {i \in DOMAIN trace.ended : trace.ended[i].how # "resolved"}

\* The promise of runCommand has settled.
Settled == frame.pc \in {"settled", "idle"} /\ outcome # NoOutcome

\* C28: runCommand invokes the handler at most retryAttempts times; an
\* attempt that resolves is the last one and its result is what runCommand
\* returns, success or not; when retryAttempts attempts have thrown or
\* timed out the promise resolves, and does not reject, with success =
\* FALSE and the attempt count; retryDelay is awaited once after every
\* failed attempt but the last.
RunCommandRetries ==
  LET n == frame.execConfig.retryAttempts
      ended == trace.ended
  IN  /\ trace.invoked <= n
      /\ trace.invoked = Len(ended) + (IF frame.pc = "attempt" THEN 1 ELSE 0)
      /\ \A i \in DOMAIN ended :
            ended[i].how = "resolved" =>
              /\ i = Len(ended)
              /\ Settled
              /\ outcome = [settled |-> "resolved", result |-> ended[i].result]
      /\ (trace.invoked = n /\ FailedAttempts = 1 .. n
            /\ frame.pc \notin {"middlewares", "attempt"}
            /\ outcome.settled # "rejected"
            /\ (outcome.settled = "resolved" => outcome.result # Blocked)) =>
           /\ Settled
           /\ outcome = [settled |-> "resolved", result |-> Exhausted(n)]
      /\ trace.waited =
           [i \in 1 .. Cardinality({j \in FailedAttempts : j < n}) |->
              frame.execConfig.retryDelay]
      /\ frame.pc = "delay" => frame.attempt < n

\* C28 witness: with the default configuration the first attempt timed
\* out, retryDelay was awaited once, and the second attempt resolved with
\* success = FALSE, which runCommand returned.
RunCommandRetriesWitness ==
  /\ frame.pc = "settled"
  /\ frame.execConfig = defaultConfig
  /\ Len(trace.ended) = 2
  /\ trace.ended[1].how = "timeout"
  /\ trace.ended[2].how = "resolved"
  /\ outcome.settled = "resolved"
  /\ ~outcome.result.success
  /\ outcome.result.message = "handler"
  /\ trace.waited = <<defaultConfig.retryDelay>>

\* C29: within one runCommand call at most one handler promise is pending
\* at any time.
OneHandlerInFlight == Cardinality(inFlight) <= 1

\* C30: when the promise of runCommand has settled, the ExecutionState of
\* the command has status completed or failed.
SettledStateIsFinal ==
  frame.pc = "settled" =>
    /\ MapHas(executionStates, frame.commandId)
    /\ MapGet(executionStates, frame.commandId).status
         \in {"completed", "failed"}

====
